---- MODULE Spec2Model ----
(***************************************************************************)
(* A model of the Lotus GPU miner (gpuminer/lotus-miner-lib): the block    *)
(* parser (block.rs), the candidate verifier Miner::find_nonce (miner.rs)  *)
(* and the server's tasks around BlockState (lib.rs).                      *)
(*                                                                         *)
(* Representation.  An Option<T> is a sequence of length 0 (None) or 1     *)
(* (Some).  A u32 is a natural number; a u64 is the record [lo, hi] of its *)
(* two 32-bit halves (value lo + 2^32 * hi).  Byte strings are sequences   *)
(* of numbers in 0..255, least significant byte first where the code uses  *)
(* to_le_bytes.  A 160-byte header is the record                           *)
(*   [prev  : bytes [0..32)  (hashPrevBlock),                              *)
(*    nonce : bytes [44..52) (the big-nonce, 8 bytes),                     *)
(*    rest  : all other bytes, which the server never writes].             *)
(***************************************************************************)
EXTENDS Integers, Sequences, FiniteSets, Bags, TLC

\* ------------------------------------------------------------------ bounds
\* Length of a hash and of a target in the model (32 in the program).
HashLen == 2
\* Index of the "found" flag word of the GPU output buffer (0x80 in the
\* program); the scan covers the indices below OutFlagIdx - 1 (0x7f).
OutFlagIdx == 3
\* Number of blocks installed into next_block in one run.
MaxFetches == 3
\* Number of fetch tasks spawned by the mining loop that exist at a time.
MaxSpawned == 1
\* Number of submission tasks spawned by the pool loop that exist at a time.
MaxSubmits == 1
\* A mining step is dispatched only while nonce_idx is below this.
MaxNonceIdx == 1
\* Number of GPU batches counted by the counters in one run.
MaxCount == 2

\* ------------------------------------------------------------- option type
None == <<>>
Some(x) == <<x>>
IsSome(o) == Len(o) = 1
Unwrap(o) == o[1]

\* ------------------------------------------------------- integers and bytes
Reverse(s) == [i \in 1..Len(s) |-> s[Len(s) + 1 - i]]

\* u32::to_le_bytes
ToLE4(n) == << n % 256, (n \div 256) % 256, (n \div 65536) % 256, (n \div 16777216) % 256 >>

\* u32::from_le_bytes
FromLE4(b) == b[1] + 256 * b[2] + 65536 * b[3] + 16777216 * b[4]

\* u32::swap_bytes
SwapBytes(n) == FromLE4(Reverse(ToLE4(n)))

\* u64::to_le_bytes
ToLE8(x) == ToLE4(x.lo) \o ToLE4(x.hi)

\* u64::from_le_bytes
FromLE8(b) == [lo |-> FromLE4(SubSeq(b, 1, 4)), hi |-> FromLE4(SubSeq(b, 5, 8))]

U64Zero == [lo |-> 0, hi |-> 0]

\* ------------------------------------------------------------------- Work
ZeroBytes(n) == [i \in 1..n |-> 0]

ZeroHeader == [prev |-> 0, nonce |-> ZeroBytes(8), rest |-> 0]

\* Work::default
WorkDefault == [header |-> ZeroHeader, target |-> ZeroBytes(HashLen), nonce_idx |-> 0]

\* Work::from_header
WorkFromHeader(header, target) == [header |-> header, target |-> target, nonce_idx |-> 0]

\* Work::set_big_nonce
\* A set_big_nonce that writes the nonce high byte first.
SetBigNonceBigEndian(work, big_nonce) ==
    [work EXCEPT !.header.nonce = Reverse(ToLE8(big_nonce))]

SetBigNonce(work, big_nonce) == [work EXCEPT !.header.nonce = ToLE8(big_nonce)]

\* ------------------------------------------------------------- Lotus hash
RECURSIVE SumSeq(_)
SumSeq(s) == IF s = <<>> THEN 0 ELSE Head(s) + SumSeq(Tail(s))

RECURSIVE Pow(_, _)
Pow(b, e) == IF e = 0 THEN 1 ELSE b * Pow(b, e - 1)

\* sha256::lotus_hash: an opaque function of the whole header.  The model's
\* stand-in mixes every part of the header into HashLen digits.
LotusHash(header) ==
    LET mix == header.prev + header.rest + SumSeq(header.nonce)
                 + 3 * header.nonce[5] + 5 * header.nonce[1]
    IN  [i \in 1..HashLen |-> (mix \div Pow(3, i - 1)) % 3]

\* ------------------------------------------------------------- find_nonce
\* A verifier that accepts on the wrong side of the comparison.
RECURSIVE HashAboveTargetFrom(_, _, _)
HashAboveTargetFrom(hash, target, i) ==
    IF i = 0 THEN FALSE
    ELSE IF hash[i] > target[i] THEN TRUE
    ELSE IF target[i] > hash[i] THEN FALSE
    ELSE HashAboveTargetFrom(hash, target, i - 1)

RECURSIVE HashBelowTargetZeroEnd(_, _, _)
\* A comparison that also rejects a hash whose last byte is not zero.
HashBelowTargetZeroEnd(hash, target, i) ==
    IF i = 0 THEN FALSE
    ELSE IF i = Len(hash) /\ hash[i] # 0 THEN FALSE
    ELSE IF hash[i] > target[i] THEN FALSE
    ELSE IF target[i] > hash[i] THEN TRUE
    ELSE HashBelowTargetZeroEnd(hash, target, i - 1)

\* The comparison loop of find_nonce: hash against target from the last byte
\* down to the first; TRUE when the candidate is accepted.
RECURSIVE HashBelowTargetFrom(_, _, _)
HashBelowTargetFrom(hash, target, i) ==
    IF i = 0 THEN FALSE
    ELSE IF hash[i] > target[i] THEN FALSE
    ELSE IF target[i] > hash[i] THEN TRUE
    ELSE HashBelowTargetFrom(hash, target, i - 1)

HashBelowTarget(hash, target) == HashBelowTargetFrom(hash, target, HashLen)

\* The header find_nonce hashes for the output word `word`.
CandidateHeader(header, word) ==
    [header EXCEPT !.nonce = ToLE4(SwapBytes(word)) \o SubSeq(header.nonce, 5, 8)]

\* The scan `for &nonce in &vec[..0x7f]` from index i on.
RECURSIVE ScanFrom(_, _, _)
ScanFrom(work, out, i) ==
    IF i >= OutFlagIdx - 1 THEN None
    ELSE IF SwapBytes(out[i]) = 0 THEN ScanFrom(work, out, i + 1)
    ELSE LET header == CandidateHeader(work.header, out[i])
             result_nonce == FromLE8(header.nonce)
         IN  IF HashBelowTarget(LotusHash(header), work.target)
             THEN Some(result_nonce)
             ELSE ScanFrom(work, out, i + 1)

\* Miner::has_nonces_left: nonce_idx * kernel_size fits in 32 bits, with
\* kernel_size = 2^kernel_exp.
HasNoncesLeft(settings, work) ==
    work.nonce_idx = 0 \/ work.nonce_idx < Pow(2, 32 - settings.kernel_exp)

\* The base of find_nonce: nonce_idx * num_nonces_per_search fits in 32 bits,
\* with num_nonces_per_search = 2^(kernel_exp + inner_exp).
BaseFits(settings, work) ==
    LET e == settings.kernel_exp + settings.inner_exp
    IN  e <= 31 /\ (work.nonce_idx = 0 \/ work.nonce_idx < Pow(2, 32 - e))

\* num_nonces_per_search().try_into().unwrap(): the conversion to u32 panics
\* when kernel_size * inner_iter_size needs more than 32 bits.
FindNoncePanics(settings) == settings.kernel_exp + settings.inner_exp > 31

\* Miner::find_nonce on the output buffer `out` the kernel has written.
FindNonce(settings, work, out) ==
    IF ~BaseFits(settings, work) THEN None
    ELSE IF out[OutFlagIdx] = 0 THEN None
    ELSE ScanFrom(work, out, 0)

\* ------------------------------------------------------------------------
\* Inputs of the verifier: output words (with their byte-swapped images),
\* big-nonces, headers, targets and miner settings.
CandWords == {0, 1, 16777216}

BigNonces == {[lo |-> 5, hi |-> 1], [lo |-> 0, hi |-> 258]}

OutBuffers == [0..OutFlagIdx -> CandWords]

Targets == [1..HashLen -> 0..2]

\* inner_iter_size = 32 = 2^5 (lib.rs), kernel_size = 2^kernel_exp
MinerSettings == [kernel_exp : {8, 23}, inner_exp : {5}]

FindWorks ==
    { SetBigNonce([header |-> [prev |-> 1, nonce |-> ZeroBytes(8), rest |-> r],
                   target |-> t, nonce_idx |-> k], n) :
        r \in {1, 2}, t \in Targets, k \in {0, 16}, n \in BigNonces }

\* ------------------------------------------------------------ block.rs
\* Minimum length of the decoded blockhex: the header length.
HeaderLen == 160

\* Block::prev_hash
PrevHash(block) == block.header.prev

\* hex::decode of a hex string [hexok, bytes]: the bytes, or an error.
HexDecode(hex) == IF hex.hexok THEN [ok |-> TRUE, bytes |-> hex.bytes] ELSE [ok |-> FALSE]

\* create_block.  The decoded blockhex is [len, header, body]: its length and
\* its first 160 bytes and the rest (meaningful when len >= 160).
CreateBlock(raw) ==
    LET block == HexDecode(raw.blockhex)
        target_bytes == HexDecode(raw.target)
    IN  IF ~block.ok THEN [ok |-> FALSE, err |-> "InvalidBlockHex"]
        ELSE IF block.bytes.len < HeaderLen THEN [ok |-> FALSE, err |-> "BlockTooShort"]
        ELSE IF ~target_bytes.ok THEN [ok |-> FALSE, err |-> "InvalidTargetHex"]
        ELSE IF Len(target_bytes.bytes) # HashLen
             THEN [ok |-> FALSE, err |-> "InvalidTargetLength"]
        ELSE [ok |-> TRUE,
              block |-> [header |-> block.bytes.header,
                         body |-> block.bytes.body,
                         target |-> Reverse(target_bytes.bytes)]]

\* --------------------------------------------------------------- the node
\* The chain tips the node goes through, in this order.
Tips == {1, 2}

\* A template of the node: the chain tip it builds on.
Templates == [prev : Tips]

\* The target the node sends (as hex, most significant byte first).
NodeTarget == [i \in 1..HashLen |-> IF i = 1 THEN 1 ELSE 2]

\* The unsolved header of template t: the nonce is zero, the other bytes
\* (time, merkle root, ...) belong to the template.
TemplateHeader(t) == [prev |-> t.prev, nonce |-> ZeroBytes(8), rest |-> t.prev]

TemplateBody(t) == << t.prev >>

\* HTTP statuses of a response; 200 is the 2xx one.
Statuses == {200, 401}

BodyKinds == {"garbage", "noresult", "badblockhex", "shortblock",
              "badtargethex", "badtargetlen", "ok"}

\* The bodies that parse as JSON but hold no usable block.
ProtocolFailures == {"noresult", "badblockhex", "shortblock", "badtargethex", "badtargetlen"}

\* The response body of kind `kind` for template t: unparseable text, or
\* the JSON object {result, error}.
ResponseBody(t, kind) ==
    IF kind = "garbage" THEN [json |-> FALSE]
    ELSE IF kind = "noresult" THEN [json |-> TRUE, result |-> None]
    ELSE [json |-> TRUE,
          result |-> Some(
            [blockhex |->
               [hexok |-> kind # "badblockhex",
                bytes |-> [len |-> IF kind = "shortblock" THEN HeaderLen - 1
                                   ELSE HeaderLen + Len(TemplateBody(t)),
                           header |-> TemplateHeader(t),
                           body |-> TemplateBody(t)]],
             target |->
               [hexok |-> kind # "badtargethex",
                bytes |-> IF kind = "badtargetlen" THEN NodeTarget \o <<0>>
                          ELSE NodeTarget]])]

\* What update_next_block gets from the node: a transport error, or a
\* response with a status and a body.
Outcomes == {[got |-> FALSE]} \cup [got : {TRUE}, status : Statuses, kind : BodyKinds]

\* ------------------------------------------------------------------ state
\* A call of find_nonce on its own: the miner settings, the work, the
\* output buffer of the kernel and the value returned.
VARIABLES fn_pc, fn_settings, fn_work, fn_out, fn_result

fn_vars == << fn_pc, fn_settings, fn_work, fn_out, fn_result >>

\* A call of update_next_block on its own: the template and the response
\* of the node, the BlockState before the call and the value returned.
VARIABLES up_pc, up_t, up_o, up_pre, up_res

up_vars == << up_pc, up_t, up_o, up_pre, up_res >>

\* The BlockState lock and the tasks around it, step by step: the position
\* of each task, the task holding the lock, whether current_block and
\* next_block are present, and where the mining task goes on after an
\* update_next_block it awaits.
VARIABLES lk_pc, bs_lock, lk_cur, lk_nxt, lk_ret

\* The counters: the statics SHARES_FOUND and HASHES_PROCESSED of miner.rs
\* and Server::metrics_nonces, the last two counted in batches of
\* num_nonces_per_search hashes.
VARIABLES shares_found, hashes_processed, metrics_nonces

\* What the running invocation of mine_some_nonces has done in solo mode:
\* its spawn_blocking calls, the batches they dispatched to the GPU,
\* the num_nonces_per_search count the last call handed back, whether a
\* nonce was returned and whether submit_block has returned.
VARIABLE lk_inv

NoInvocation == [calls |-> 0, batches |-> 0, nonces |-> 0, hit |-> FALSE, submitted |-> FALSE]

cnt_vars == << shares_found, hashes_processed, metrics_nonces >>

lk_vars == << lk_pc, bs_lock, lk_cur, lk_nxt, lk_ret, cnt_vars, lk_inv >>

\* A call of one of the program's functions on its own: the function, its
\* input and the value returned.
VARIABLES u_pc, u_fn, u_in, u_out

u_vars == << u_pc, u_fn, u_in, u_out >>

\* The loop of run_genesis_mining: its position, genesis_block.header, the
\* work given to find_nonce, whether more than 30 s have passed since the
\* last timestamp update, and on success the header find_nonce verified
\* together with what is reported.
VARIABLES g_pc, g_header, g_work, g_elapsed, g_report

g_vars == << g_pc, g_header, g_work, g_elapsed, g_report >>

\* The locks of Server (who holds each) and the position of each task in
\* its sequence of acquisitions.
VARIABLES lock_holder, task_pc

tk_vars == << lock_holder, task_pc >>

\* The variables of the other developments of this module.
aux_vars == << lk_vars, u_vars, g_vars, tk_vars >>

\* The server.
VARIABLES
    pool_mining,     \* NodeSettings.pool_mining
    settings,        \* the Miner's MiningSettings
    node_tip,        \* the chain tip of the node
    current_work, current_block, next_block, extra_nonce,   \* BlockState
    installs,        \* number of blocks installed into next_block so far
    ev_started,      \* a "Started mining on chain tip" event has been logged
    ev_switched,     \* a "Switched to new chain tip" event has been logged
    ev_failed,       \* a failed fetch has been logged as an error
    per_req,         \* the periodic fetcher of Server::run: its request in flight
    pre_pc, pre_req, \* the prefetcher of the pool worker
    m_pc, m_ret, m_req,  \* the task of Server::run that calls mine_some_nonces
    w_pc,                \* the pool worker
    l_work, l_block,     \* locals of the mining step in flight
    sp_req,          \* requests of the fetch tasks spawned by the mining loop
    sub_req          \* blocks of the submit_block calls in flight

bs_vars == << current_work, current_block, next_block, extra_nonce >>

ev_vars == << ev_started, ev_switched, ev_failed >>

pre_vars == << pre_pc, pre_req >>

mine_vars == << m_pc, m_ret, m_req, w_pc, l_work, l_block >>

\* What no step of the server changes.
cfg_vars == << pool_mining, settings, fn_vars, up_vars, aux_vars >>

srv_vars == << pool_mining, settings, node_tip, bs_vars, installs, ev_vars,
               per_req, pre_vars, mine_vars, sp_req, sub_req >>

\* ------------------------------------------------------ update_next_block
\* The chain-tip event update_next_block logs when it installs `block`:
\* "switched" when a block is being mined and the tip differs, "started"
\* when no block is being mined, else none.
TipEvent(block) ==
    IF IsSome(current_block)
    THEN IF PrevHash(Unwrap(current_block)) # PrevHash(block) THEN "switched" ELSE "none"
    ELSE "started"

\* An install that counts extra_nonce only once work is being mined.
InstallBlockLateCount(block) ==
    /\ ev_started' = (ev_started \/ TipEvent(block) = "started")
    /\ ev_switched' = (ev_switched \/ TipEvent(block) = "switched")
    /\ extra_nonce' = IF IsSome(current_block) THEN extra_nonce + 1 ELSE extra_nonce
    /\ next_block' = Some(block)
    /\ installs' = installs + 1
    /\ UNCHANGED << current_work, current_block, ev_failed >>

\* An install that clears current_block when it stores the new block.
InstallBlockClearingCurrent(block) ==
    /\ ev_started' = (ev_started \/ TipEvent(block) = "started")
    /\ ev_switched' = (ev_switched \/ TipEvent(block) = "switched")
    /\ extra_nonce' = extra_nonce + 1
    /\ next_block' = Some(block)
    /\ installs' = installs + 1
    /\ current_block' = None
    /\ UNCHANGED << current_work, ev_failed >>

\* The critical section at the end of update_next_block: the chain-tip
\* event is logged, extra_nonce += 1, next_block = Some(block).
InstallBlock(block) ==
    /\ ev_started' = (ev_started \/ TipEvent(block) = "started")
    /\ ev_switched' = (ev_switched \/ TipEvent(block) = "switched")
    /\ extra_nonce' = extra_nonce + 1
    /\ next_block' = Some(block)
    /\ installs' = installs + 1
    /\ UNCHANGED << current_work, current_block, ev_failed >>

\* update_next_block returns without a block: the failure is logged as an
\* error (by update_next_block, or by its caller for a transport error) and
\* BlockState is left alone.
NoInstall ==
    /\ ev_failed' = TRUE
    /\ UNCHANGED << bs_vars, installs, ev_started, ev_switched >>

\* An update_next_block that lets a block parse failure propagate.
UpdateNextBlockParseErr(t, o, res) ==
    IF ~o.got
    THEN res = "Err" /\ NoInstall
    ELSE LET body == ResponseBody(t, o.kind)
         IN  IF ~body.json THEN res = "Ok" /\ NoInstall
             ELSE IF ~IsSome(body.result) THEN res = "Ok" /\ NoInstall
             ELSE LET parsed == CreateBlock(Unwrap(body.result))
                  IN  IF ~parsed.ok THEN res = "Err" /\ NoInstall
                      ELSE res = "Ok" /\ InstallBlock(parsed.block)

\* update_next_block from the moment the node answers with template t: the
\* transport fails (the error propagates to the caller, res = "Err"), or the
\* response is parsed, checked and installed (res = "Ok" in every case).
UpdateNextBlock(t, o, res) ==
    IF ~o.got
    THEN res = "Err" /\ NoInstall
    ELSE /\ res = "Ok"
         /\ LET body == ResponseBody(t, o.kind)
            IN  IF ~body.json THEN NoInstall
                ELSE IF ~IsSome(body.result) THEN NoInstall
                ELSE LET parsed == CreateBlock(Unwrap(body.result))
                     IN  IF ~parsed.ok THEN NoInstall
                         ELSE InstallBlock(parsed.block)

\* The model follows a run up to MaxFetches installed blocks: the node
\* serves a usable block only below that.
Allowed(o) == (o.got /\ o.kind = "ok") => extra_nonce < MaxFetches

\* A request in flight is the chain tip of the node when it was sent; the
\* node answers it with the template of that moment or of any later one.
\* Only a response of kind "ok" carries the whole template.
NodeTemplates(sent_tip, o) ==
    IF o.got /\ o.kind = "ok"
    THEN {[prev |-> tip] : tip \in sent_tip..node_tip}
    ELSE {[prev |-> sent_tip]}

\* An update_next_block call completes: the request `req`, with any answer
\* the node can give, either way of returning.
FetchDone(req) ==
    \E o \in Outcomes : \E t \in NodeTemplates(req, o), res \in {"Ok", "Err"} :
        Allowed(o) /\ UpdateNextBlock(t, o, res)

\* The node moves to the next chain tip.
NodeAdvance ==
    /\ node_tip + 1 \in Tips
    /\ node_tip' = node_tip + 1
    /\ UNCHANGED << cfg_vars, bs_vars, installs, ev_vars, per_req,
                    pre_vars, mine_vars, sp_req, sub_req >>

\* --------------------------------------------- Server::run, periodic fetcher
\* The loop of the periodic task calls update_next_block: request sent ...
PeriodicSendUntilFailure ==
    /\ per_req = None
    /\ ~ev_failed
    /\ per_req' = Some(node_tip)
    /\ UNCHANGED << cfg_vars, node_tip, bs_vars, installs, ev_vars,
                    pre_vars, mine_vars, sp_req, sub_req >>

PeriodicSend ==
    /\ per_req = None
    /\ per_req' = Some(node_tip)
    /\ UNCHANGED << cfg_vars, node_tip, bs_vars, installs, ev_vars,
                    pre_vars, mine_vars, sp_req, sub_req >>

\* ... and answered; the task logs an error result and sleeps.
PeriodicRecv ==
    /\ IsSome(per_req)
    /\ FetchDone(Unwrap(per_req))
    /\ per_req' = None
    /\ UNCHANGED << cfg_vars, node_tip, pre_vars, mine_vars, sp_req, sub_req >>

\* -------------------------------------------------- prefetcher (pool mode)
\* needs_work under the lock, then update_next_block: request sent ...
PrefetchCheck ==
    /\ pre_pc = "check"
    /\ next_block = None
    /\ pre_pc' = "wait"
    /\ pre_req' = Some(node_tip)
    /\ UNCHANGED << cfg_vars, node_tip, bs_vars, installs, ev_vars,
                    per_req, mine_vars, sp_req, sub_req >>

\* ... and answered; the prefetcher sleeps and checks again.
PrefetchRecv ==
    /\ pre_pc = "wait"
    /\ FetchDone(Unwrap(pre_req))
    /\ pre_pc' = "check"
    /\ pre_req' = None
    /\ UNCHANGED << cfg_vars, node_tip, per_req, mine_vars, sp_req, sub_req >>

\* ----------------------------- fetch tasks spawned by the mining loop
SpawnRoom == BagCardinality(sp_req) < MaxSpawned

\* tokio::spawn(update_next_block): a new request is under way.
SpawnFetch == sp_req' = sp_req (+) SetToBag({node_tip})

SpawnedRecv ==
    /\ \E req \in BagToSet(sp_req) :
         /\ FetchDone(req)
         /\ sp_req' = sp_req (-) SetToBag({req})
    /\ UNCHANGED << cfg_vars, node_tip, per_req, pre_vars, mine_vars, sub_req >>

\* The model follows the mining of a work while its nonce index is below
\* MaxNonceIdx.
IdxInBound(work) == work.nonce_idx < MaxNonceIdx

\* ------------------------------------------------ mine_some_nonces, entry
\* Where mine_some_nonces goes after its initial work-queue check.
AfterInit == IF pool_mining THEN "spawn" ELSE "getwork"

\* The initial check: fetch inline when BlockState holds no block at all.
MinerStart ==
    /\ m_pc = "start"
    /\ IF next_block = None /\ current_block = None
       THEN m_pc' = "iwait" /\ m_ret' = AfterInit /\ m_req' = Some(node_tip)
       ELSE m_pc' = AfterInit /\ UNCHANGED << m_ret, m_req >>
    /\ UNCHANGED << cfg_vars, node_tip, bs_vars, installs, ev_vars,
                    per_req, pre_vars, w_pc, l_work, l_block, sp_req, sub_req >>

\* The update_next_block awaited by the mining task itself returns.
InlineRecv ==
    /\ m_pc = "iwait"
    /\ FetchDone(Unwrap(m_req))
    /\ m_pc' = m_ret
    /\ m_req' = None
    /\ UNCHANGED << cfg_vars, node_tip, per_req, pre_vars, m_ret, w_pc, l_work,
                    l_block, sp_req, sub_req >>

\* ------------------------------------------------------- the mining step
\* current_work.nonce_idx is reset to 0 above this value.
NonceIdxLimit == 1000

\* Batches run by one spawn_blocking call of the pool worker.
BATCHES_PER_YIELD == 8

\* What the kernel leaves in the output buffer: nothing, or a candidate.
GpuOuts == { [i \in 0..OutFlagIdx |-> 0] } \cup
           { [i \in 0..OutFlagIdx |-> IF i = 0 THEN w ELSE IF i = OutFlagIdx THEN 1 ELSE 0] :
               w \in CandWords \ {0} }

\* The big-nonces the server's rng draws.
RngDraws == {[lo |-> 5, hi |-> 258]}

\* The mining settings of Server::from_config for kernel_size 23.
ServerSettings == [kernel_exp |-> 23, inner_exp |-> 5]

\* A promotion that moves the block but keeps the work of the block before.
PromotedStaleWork ==
    IF IsSome(next_block)
    THEN [cw |-> current_work, cb |-> next_block, nb |-> None]
    ELSE [cw |-> current_work, cb |-> current_block, nb |-> next_block]

\* A promotion that makes the work from the new block and keeps the block
\* that was being mined.
PromotedKeepingBlock ==
    IF IsSome(next_block)
    THEN [cw |-> WorkFromHeader(Unwrap(next_block).header, Unwrap(next_block).target),
          cb |-> IF IsSome(current_block) THEN current_block ELSE next_block,
          nb |-> None]
    ELSE [cw |-> current_work, cb |-> current_block, nb |-> next_block]

\* `if let Some(next_block) = block_state.next_block.take() { ... }`: the
\* BlockState fields after the promotion of next_block, if there is one.
Promoted ==
    IF IsSome(next_block)
    THEN [cw |-> WorkFromHeader(Unwrap(next_block).header, Unwrap(next_block).target),
          cb |-> next_block,
          nb |-> None]
    ELSE [cw |-> current_work, cb |-> current_block, nb |-> next_block]

\* A reset that lets the index run one further before it starts over.
ResetHighIdxLate(work) ==
    IF work.nonce_idx > NonceIdxLimit + 1 THEN [work EXCEPT !.nonce_idx = 0] ELSE work

ResetHighIdx(work) ==
    IF work.nonce_idx > NonceIdxLimit THEN [work EXCEPT !.nonce_idx = 0] ELSE work

SubmitRoom == BagCardinality(sub_req) < MaxSubmits

\* --------------------------------------------------------------- pool mode
\* A mine_some_nonces that spawns the worker and runs the solo loop as well.
PoolSpawnAndMine ==
    /\ m_pc = "spawn"
    /\ m_pc' = "getwork"
    /\ w_pc' = "getwork"
    /\ pre_pc' = "check"
    /\ UNCHANGED << cfg_vars, node_tip, bs_vars, installs, ev_vars,
                    per_req, pre_req, m_ret, m_req, l_work, l_block, sp_req, sub_req >>

\* mine_some_nonces spawns the worker, which spawns the prefetcher; the
\* calling task then sleeps forever.
PoolSpawn ==
    /\ m_pc = "spawn"
    /\ m_pc' = "parked"
    /\ w_pc' = "getwork"
    /\ pre_pc' = "check"
    /\ UNCHANGED << cfg_vars, node_tip, bs_vars, installs, ev_vars,
                    per_req, pre_req, m_ret, m_req, l_work, l_block, sp_req, sub_req >>

\* A worker that dispatches only once every submission has been answered.
PoolGetWorkAfterSubmits ==
    /\ w_pc = "getwork"
    /\ sub_req = EmptyBag
    /\ LET p == Promoted
           cw == ResetHighIdx(p.cw)
       IN  /\ IsSome(p.cb)
           /\ IdxInBound(cw)
           /\ current_work' = cw
           /\ current_block' = p.cb
           /\ next_block' = p.nb
           /\ l_work' = cw
           /\ l_block' = p.cb
    /\ w_pc' = "gpu"
    /\ UNCHANGED << cfg_vars, node_tip, extra_nonce, installs, ev_vars,
                    per_req, pre_vars, m_pc, m_ret, m_req, sp_req, sub_req >>

\* Step 1 of the pool worker, under the BlockState lock: promote, reset a
\* high nonce index, clone the work and the block, dispatch the batches.
\* Without a current block the worker sleeps and retries, which changes
\* nothing.
PoolGetWork ==
    /\ w_pc = "getwork"
    /\ LET p == Promoted
           cw == ResetHighIdx(p.cw)
       IN  /\ IsSome(p.cb)
           /\ IdxInBound(cw)
           /\ current_work' = cw
           /\ current_block' = p.cb
           /\ next_block' = p.nb
           /\ l_work' = cw
           /\ l_block' = p.cb
    /\ w_pc' = "gpu"
    /\ UNCHANGED << cfg_vars, node_tip, extra_nonce, installs, ev_vars,
                    per_req, pre_vars, m_pc, m_ret, m_req, sp_req, sub_req >>

\* The work of one iteration of the batch loop: the big-nonce is drawn and
\* the nonce index reset when no nonces are left.
BatchWork(work, big_nonce) ==
    LET w == SetBigNonce(work, big_nonce)
    IN  IF HasNoncesLeft(settings, w) THEN w ELSE [w EXCEPT !.nonce_idx = 0]

\* The results (found_nonce, batches_run, work) the batch loop inside
\* spawn_blocking can return when `works` are the works it can hold after
\* k batches without a hit: a GPU error breaks the loop, a hit returns.
RECURSIVE BatchLoop(_, _)
BatchLoop(works, k) ==
    IF k = BATCHES_PER_YIELD
    THEN { [found |-> None, batches |-> k, work |-> w] : w \in works }
    ELSE LET tries == { [work |-> BatchWork(w, bn), out |-> out] :
                          w \in works, bn \in RngDraws, out \in GpuOuts }
             errs == { [found |-> None, batches |-> k, work |-> t.work] : t \in tries }
             hits == { [found |-> FindNonce(settings, t.work, t.out),
                        batches |-> k + 1, work |-> t.work] :
                          t \in { u \in tries : IsSome(FindNonce(settings, u.work, u.out)) } }
             misses == { [t.work EXCEPT !.nonce_idx = @ + 1] :
                          t \in { u \in tries : ~IsSome(FindNonce(settings, u.work, u.out)) } }
         IN  errs \cup hits \cup (IF misses = {} THEN {} ELSE BatchLoop(misses, k + 1))

\* A post-batch step that writes the whole mined work back.
PoolPostWholeWork(r) ==
    /\ current_work' = IF r.batches > 0 THEN r.work ELSE current_work
    /\ IF IsSome(r.found)
       THEN LET submit_work == SetBigNonce(r.work, Unwrap(r.found))
                submit_block_data == [Unwrap(l_block) EXCEPT !.header = submit_work.header]
            IN  /\ SpawnRoom /\ SubmitRoom
                /\ SpawnFetch
                /\ sub_req' = sub_req (+) SetToBag({submit_block_data})
       ELSE UNCHANGED << sp_req, sub_req >>

\* A post-batch step that submits a found share without fetching new work.
PoolPostNoRefetch(r) ==
    /\ current_work' = IF r.batches > 0
                       THEN [current_work EXCEPT !.nonce_idx = r.work.nonce_idx]
                       ELSE current_work
    /\ IF IsSome(r.found)
       THEN LET submit_work == SetBigNonce(r.work, Unwrap(r.found))
                submit_block_data == [Unwrap(l_block) EXCEPT !.header = submit_work.header]
            IN  /\ SubmitRoom
                /\ sub_req' = sub_req (+) SetToBag({submit_block_data})
                /\ UNCHANGED sp_req
       ELSE UNCHANGED << sp_req, sub_req >>

\* After the batches returned r: write the nonce index back; on a hit spawn
\* the refetch and the submission of the cloned block with the found nonce.
PoolPost(r) ==
    /\ current_work' = IF r.batches > 0
                       THEN [current_work EXCEPT !.nonce_idx = r.work.nonce_idx]
                       ELSE current_work
    /\ IF IsSome(r.found)
       THEN LET submit_work == SetBigNonce(r.work, Unwrap(r.found))
                submit_block_data == [Unwrap(l_block) EXCEPT !.header = submit_work.header]
            IN  /\ SpawnRoom /\ SubmitRoom
                /\ SpawnFetch
                /\ sub_req' = sub_req (+) SetToBag({submit_block_data})
       ELSE UNCHANGED << sp_req, sub_req >>

\* The spawn_blocking call returns (or panics, and the loop continues) and
\* the worker handles its result.
PoolBatches ==
    /\ w_pc = "gpu"
    /\ IF FindNoncePanics(settings)
       THEN UNCHANGED << current_work, sp_req, sub_req >>
       ELSE \E r \in BatchLoop({l_work}, 0) : PoolPost(r)
    /\ w_pc' = "getwork"
    /\ l_work' = WorkDefault
    /\ l_block' = None
    /\ UNCHANGED << cfg_vars, node_tip, current_block, next_block, extra_nonce, installs,
                    ev_vars, per_req, pre_vars, m_pc, m_ret, m_req >>

\* A submit_block call gets its response (or a transport error) and logs it.
SubmitRecv ==
    /\ \E b \in BagToSet(sub_req) : sub_req' = sub_req (-) SetToBag({b})
    /\ UNCHANGED << cfg_vars, node_tip, bs_vars, installs, ev_vars,
                    per_req, pre_vars, mine_vars, sp_req >>

\* --------------------------------------------------------------- solo mode
\* A solo step 1 that dispatches on current_work whether or not there is a
\* current block.
SoloGetWorkNoBlockCheck ==
    /\ m_pc = "getwork"
    /\ LET p == Promoted
       IN  /\ current_block' = p.cb
           /\ next_block' = p.nb
           /\ IdxInBound(p.cw)
           /\ current_work' = ResetHighIdx(p.cw)
           /\ IF ~IsSome(p.nb)
              THEN SpawnRoom /\ SpawnFetch
              ELSE UNCHANGED sp_req
           /\ \E big_nonce \in RngDraws :
                l_work' = SetBigNonce(ResetHighIdx(p.cw), big_nonce)
           /\ m_pc' = "gpu"
           /\ UNCHANGED << m_ret, m_req >>
    /\ UNCHANGED << cfg_vars, node_tip, extra_nonce, installs, ev_vars,
                    per_req, pre_vars, w_pc, l_block, sub_req >>

\* Step 1 of the solo loop, under the BlockState lock: promote; without a
\* current block fetch inline and retry; else clone the work, spawn the
\* proactive prefetch (next_block is empty after the take), reset a high
\* nonce index, draw the big-nonce and dispatch the batch.
SoloGetWork ==
    /\ m_pc = "getwork"
    /\ LET p == Promoted
       IN  /\ current_block' = p.cb
           /\ next_block' = p.nb
           /\ IF ~IsSome(p.cb)
              THEN /\ current_work' = p.cw
                   /\ m_pc' = "iwait"
                   /\ m_ret' = "getwork"
                   /\ m_req' = Some(node_tip)
                   /\ UNCHANGED << l_work, sp_req >>
              ELSE /\ IdxInBound(p.cw)
                   /\ current_work' = ResetHighIdx(p.cw)
                   /\ IF ~IsSome(p.nb)
                      THEN SpawnRoom /\ SpawnFetch
                      ELSE UNCHANGED sp_req
                   /\ \E big_nonce \in RngDraws :
                        l_work' = SetBigNonce(ResetHighIdx(p.cw), big_nonce)
                   /\ m_pc' = "gpu"
                   /\ UNCHANGED << m_ret, m_req >>
    /\ UNCHANGED << cfg_vars, node_tip, extra_nonce, installs, ev_vars,
                    per_req, pre_vars, w_pc, l_block, sub_req >>

\* The nonce of the solo batch: none without nonces left, on a panic of
\* find_nonce or on a GPU error, else what find_nonce returns.
SoloBatchNonce(out, gpu_err) ==
    IF ~HasNoncesLeft(settings, l_work) THEN None
    ELSE IF FindNoncePanics(settings) \/ gpu_err THEN None
    ELSE FindNonce(settings, l_work, out)

\* The batch returns and the loop handles its result.  On a hit: take
\* current_block, give it the found header and call submit_block (the
\* request is sent).  Else: nonce_idx += 1 and mine_some_nonces returns.
SoloBatch ==
    /\ m_pc = "gpu"
    /\ \E out \in GpuOuts, gpu_err \in BOOLEAN :
         LET nonce == SoloBatchNonce(out, gpu_err)
         IN  IF IsSome(nonce)
             THEN LET work == SetBigNonce(l_work, Unwrap(nonce))
                  IN  /\ IF IsSome(current_block)
                         THEN /\ l_block' = Some([Unwrap(current_block)
                                                    EXCEPT !.header = work.header])
                              /\ m_pc' = "subwait"
                         ELSE /\ l_block' = None
                              /\ m_pc' = "start"
                      /\ current_block' = None
                      /\ UNCHANGED current_work
             ELSE /\ current_work' = [current_work EXCEPT !.nonce_idx = @ + 1]
                  /\ m_pc' = "start"
                  /\ UNCHANGED << current_block, l_block >>
    /\ l_work' = WorkDefault
    /\ UNCHANGED << cfg_vars, node_tip, next_block, extra_nonce, installs, ev_vars,
                    per_req, pre_vars, m_ret, m_req, w_pc, sp_req, sub_req >>

\* The submit_block awaited by the solo loop returns; mine_some_nonces
\* returns and is called again.
SoloSubmitRecv ==
    /\ m_pc = "subwait"
    /\ m_pc' = "start"
    /\ l_block' = None
    /\ UNCHANGED << cfg_vars, node_tip, bs_vars, installs, ev_vars,
                    per_req, pre_vars, m_ret, m_req, w_pc, l_work, sp_req, sub_req >>

\* ------------------------------------------------------------------ server
\* BlockState of Server::from_config, nothing fetched or logged yet.
BsInit ==
    /\ current_work = WorkDefault
    /\ current_block = None
    /\ next_block = None
    /\ extra_nonce = 0
    /\ installs = 0
    /\ ev_started = FALSE
    /\ ev_switched = FALSE
    /\ ev_failed = FALSE

\* The tasks of Server::run before their first step.
TasksInit ==
    /\ pool_mining \in BOOLEAN
    /\ settings = ServerSettings
    /\ node_tip = 1
    /\ per_req = None
    /\ pre_pc = "off" /\ pre_req = None
    /\ m_pc = "start" /\ m_ret = "start" /\ m_req = None
    /\ w_pc = "off"
    /\ l_work = WorkDefault /\ l_block = None
    /\ sp_req = EmptyBag
    /\ sub_req = EmptyBag

SrvInit == BsInit /\ TasksInit

Next ==
    \/ NodeAdvance
    \/ PeriodicSend \/ PeriodicRecv
    \/ PrefetchCheck \/ PrefetchRecv
    \/ SpawnedRecv
    \/ MinerStart \/ InlineRecv
    \/ PoolSpawn \/ PoolGetWork \/ PoolBatches
    \/ SubmitRecv
    \/ SoloGetWork \/ SoloBatch \/ SoloSubmitRecv

vars == << fn_vars, up_vars, aux_vars, srv_vars >>

\* The tasks of the lock development.
LkTasks == {"per", "pre", "mine", "work", "sp", "sub"}

\* No task of the lock development has started.
LkIdle ==
    /\ lk_pc = [t \in LkTasks |-> "off"]
    /\ bs_lock = "free"
    /\ lk_cur = FALSE
    /\ lk_nxt = FALSE
    /\ lk_ret = "off"
    /\ shares_found = 0
    /\ hashes_processed = 0
    /\ metrics_nonces = 0
    /\ lk_inv = NoInvocation

\* No function is called on its own.
UIdle ==
    /\ u_pc = "off"
    /\ u_fn = "none"
    /\ u_in = << >>
    /\ u_out = << >>

\* run_genesis_mining is not running.
GIdle ==
    /\ g_pc = "off"
    /\ g_header = << >>
    /\ g_work = WorkDefault
    /\ g_elapsed = FALSE
    /\ g_report = << >>

\* The tasks of the lock development are not running.
TkIdle ==
    /\ lock_holder = << >>
    /\ task_pc = << >>

AuxIdle == LkIdle /\ UIdle /\ GIdle /\ TkIdle

\* No call of find_nonce on its own.
FnIdle ==
    /\ fn_pc = "off"
    /\ fn_settings = ServerSettings
    /\ fn_work = WorkDefault
    /\ fn_out = [i \in 0..OutFlagIdx |-> 0]
    /\ fn_result = None

\* No call of update_next_block on its own.
UpIdle ==
    /\ up_pc = "off"
    /\ up_t = [prev |-> 1]
    /\ up_o = [got |-> FALSE]
    /\ up_pre = << >>
    /\ up_res = "none"

FnInit ==
    /\ SrvInit
    /\ UpIdle
    /\ AuxIdle
    /\ fn_pc = "call"
    /\ fn_settings \in MinerSettings
    /\ fn_work \in FindWorks
    /\ fn_out \in OutBuffers
    /\ fn_result = None

\* One call of Miner::find_nonce on the kernel's output.
FnCall ==
    /\ fn_pc = "call"
    /\ fn_result' = FindNonce(fn_settings, fn_work, fn_out)
    /\ fn_pc' = "done"
    /\ UNCHANGED << fn_settings, fn_work, fn_out, up_vars, aux_vars, srv_vars >>

SpecFind == FnInit /\ [][FnCall]_vars

\* The block create_block makes of the node's template t.
TemplateBlock(t) == CreateBlock(Unwrap(ResponseBody(t, "ok").result)).block

\* The BlockState values a call of update_next_block can meet: nothing
\* fetched yet, or after n installs a block waiting in next_block, a block
\* being mined, or both.
BlockStates ==
    { [cw |-> WorkDefault, cb |-> None, nb |-> None, n |-> 0] } \cup
    { [cw |-> WorkDefault, cb |-> None, nb |-> Some(TemplateBlock(t)), n |-> n] :
        t \in Templates, n \in 1..(MaxFetches - 1) } \cup
    { [cw |-> [WorkFromHeader(TemplateBlock(c).header, TemplateBlock(c).target)
                 EXCEPT !.nonce_idx = idx],
       cb |-> Some(TemplateBlock(c)), nb |-> nb, n |-> n] :
        c \in Templates, idx \in 0..MaxNonceIdx,
        nb \in {None} \cup {Some(TemplateBlock(t)) : t \in Templates},
        n \in 1..(MaxFetches - 1) }

UpInit ==
    /\ TasksInit
    /\ FnIdle
    /\ AuxIdle
    /\ \E bs \in BlockStates :
         /\ current_work = bs.cw
         /\ current_block = bs.cb
         /\ next_block = bs.nb
         /\ extra_nonce = bs.n
         /\ installs = bs.n
         /\ ev_started = (bs.n > 0)
         /\ ev_switched = FALSE
         /\ ev_failed = FALSE
    /\ up_pc = "call"
    /\ up_t \in Templates
    /\ up_o \in Outcomes
    /\ up_pre = << current_work, current_block, next_block, extra_nonce >>
    /\ up_res = "none"

\* One call of update_next_block, from the node's answer to its return.
UpCall ==
    /\ up_pc = "call"
    /\ \E res \in {"Ok", "Err"} :
         /\ UpdateNextBlock(up_t, up_o, res)
         /\ up_res' = res
    /\ up_pc' = "done"
    /\ UNCHANGED << fn_vars, aux_vars, up_t, up_o, up_pre, pool_mining, settings, node_tip,
                    per_req, pre_vars, mine_vars, sp_req, sub_req >>

SpecFetch == UpInit /\ [][UpCall]_vars

\* The server: no call is running on its own.
Init == SrvInit /\ FnIdle /\ UpIdle /\ AuxIdle

Spec == Init /\ [][Next]_vars

\* ------------------------------------------------- the BlockState lock
\* What no step of the lock development changes.
lk_rest0 == << fn_vars, up_vars, u_vars, g_vars, tk_vars, srv_vars >>
lk_rest1 == << lk_rest0, cnt_vars >>
lk_rest == << lk_rest1, lk_inv >>

At(t, p) == lk_pc[t] = p

Go(t, p) == lk_pc' = [lk_pc EXCEPT ![t] = p]

\* Where task t goes on when its update_next_block returns.
FetchRet(t) ==
    IF t = "mine" THEN lk_ret
    ELSE IF t = "sp" THEN "off"
    ELSE "sleep"

\* The places where a task awaits block_state.lock(): the position before
\* and the position inside the critical section.
LockPoints ==
    { << t, "lockwait", "install" >> : t \in {"per", "pre", "mine", "sp"} } \cup
    { << "pre", "loop", "check" >>,
      << "mine", "start", "initcheck" >>,
      << "mine", "log", "logcrit" >>,
      << "mine", "top", "topcrit" >>,
      << "mine", "reset", "resetcrit" >>,
      << "mine", "take", "takecrit" >>,
      << "mine", "stat", "statcrit" >>,
      << "work", "top", "topcrit" >>,
      << "work", "wbhit", "wbhitcrit" >>,
      << "work", "wbmiss", "wbmisscrit" >> }

\* block_state.lock().await returns: the lock was free and is now held.
LkAcquire ==
    /\ \E lp \in LockPoints :
         /\ At(lp[1], lp[2])
         /\ bs_lock = "free"
         /\ bs_lock' = lp[1]
         /\ Go(lp[1], lp[3])
         /\ lk_inv' = IF lp[2] = "start" THEN NoInvocation ELSE lk_inv
    /\ UNCHANGED << lk_cur, lk_nxt, lk_ret, lk_rest1 >>

\* The guard of task t goes out of scope or is dropped.
LkRelease(t) == bs_lock' = (IF bs_lock = t THEN "free" ELSE bs_lock)

\* An update_next_block that is awaited with the BlockState guard alive.
LkFetchHoldingLock(t, ret) ==
    /\ Go(t, "http")
    /\ lk_ret' = ret
    /\ UNCHANGED bs_lock

\* drop(block_state), then update_next_block is called and awaited; the
\* task goes on at `ret` afterwards.
LkDropAndFetch(t, ret) ==
    /\ LkRelease(t)
    /\ Go(t, "http")
    /\ lk_ret' = ret

\* update_next_block: the node answers (or the transport fails).  A usable
\* block takes the task to the lock, anything else makes the call return.
LkFetchReply ==
    /\ \E t \in {"per", "pre", "mine", "sp"} :
         /\ At(t, "http")
         /\ \/ Go(t, "lockwait")
            \/ Go(t, FetchRet(t))
    /\ UNCHANGED << bs_lock, lk_cur, lk_nxt, lk_ret, lk_rest >>

\* update_next_block: the critical section that installs the block.
LkFetchInstall ==
    /\ \E t \in {"per", "pre", "mine", "sp"} :
         /\ At(t, "install")
         /\ LkRelease(t)
         /\ Go(t, FetchRet(t))
    /\ lk_nxt' = TRUE
    /\ UNCHANGED << lk_cur, lk_ret, lk_rest >>

\* The prefetcher reads needs_work under the lock and releases it; it
\* fetches when next_block is empty, then sleeps.
LkPrefetchCheck ==
    /\ At("pre", "check")
    /\ LkRelease("pre")
    /\ Go("pre", IF lk_nxt THEN "sleep" ELSE "http")
    /\ UNCHANGED << lk_cur, lk_nxt, lk_ret, lk_rest >>

\* mine_some_nonces, initial check under the lock: with no block at all the
\* guard is dropped and update_next_block awaited; else the guard goes out
\* of scope.
LkMinerInitCheck ==
    /\ At("mine", "initcheck")
    /\ IF ~lk_nxt /\ ~lk_cur
       THEN LkDropAndFetch("mine", "mode")
       ELSE LkRelease("mine") /\ Go("mine", "mode") /\ UNCHANGED lk_ret
    /\ UNCHANGED << lk_cur, lk_nxt, lk_rest >>

\* mine_some_nonces branches on pool_mining: spawn the worker and the
\* prefetcher and sleep forever, or enter the solo loop.
LkMinerMode ==
    /\ At("mine", "mode")
    /\ lk_pc' = IF pool_mining
                THEN [lk_pc EXCEPT !["mine"] = "parked", !["work"] = "top", !["pre"] = "loop"]
                ELSE [lk_pc EXCEPT !["mine"] = "log"]
    /\ UNCHANGED << bs_lock, lk_cur, lk_nxt, lk_ret, lk_rest >>

\* Solo loop, get work: promote next_block; with no current block drop the
\* guard, fetch and start the iteration again; else clone the work and
\* leave the critical section.
LkSoloTop ==
    /\ At("mine", "topcrit")
    /\ lk_cur' = (lk_cur \/ lk_nxt)
    /\ lk_nxt' = FALSE
    /\ IF ~(lk_cur \/ lk_nxt)
       THEN LkDropAndFetch("mine", "log")
       ELSE LkRelease("mine") /\ Go("mine", "spawn") /\ UNCHANGED lk_ret
    /\ UNCHANGED lk_rest

\* Solo loop: next_block was just taken, so the proactive prefetch is
\* spawned (one spawned fetch at a time here); a nonce index above 1000
\* takes the lock again to reset it, else the batch is dispatched.
LkSoloSpawn ==
    /\ At("mine", "spawn")
    /\ At("sp", "off")
    /\ \E high \in BOOLEAN :
         lk_pc' = [lk_pc EXCEPT !["sp"] = "http",
                                !["mine"] = IF high THEN "reset" ELSE "gpu"]
    /\ UNCHANGED << bs_lock, lk_cur, lk_nxt, lk_ret, lk_rest >>

\* A solo hit that breaks out of the loop without awaiting submit_block.
LkSoloTakeNoAwait ==
    /\ At("mine", "takecrit")
    /\ lk_cur' = FALSE
    /\ LkRelease("mine")
    /\ Go("mine", "start")
    /\ UNCHANGED << lk_nxt, lk_ret, lk_rest >>

\* Solo loop, hit: current_block.take() under the lock, then submit_block
\* is awaited (with no block the loop just breaks).
LkSoloTake ==
    /\ At("mine", "takecrit")
    /\ lk_cur' = FALSE
    /\ LkRelease("mine")
    /\ Go("mine", IF lk_cur THEN "subhttp" ELSE "start")
    /\ UNCHANGED << lk_nxt, lk_ret, lk_rest >>

\* A submit_block whose accepted share is counted on the response.
LkSubmitDoneCounting ==
    /\ \/ At("mine", "subhttp") /\ Go("mine", "start")
       \/ At("sub", "subhttp") /\ Go("sub", "off")
    /\ shares_found' = shares_found + 1
    /\ UNCHANGED << bs_lock, lk_cur, lk_nxt, lk_ret, lk_rest0, hashes_processed,
                    metrics_nonces, lk_inv >>

\* A submit_block call gets its response: awaited by the solo loop, or
\* running as the task the pool worker spawned.
LkSubmitDone ==
    /\ \/ /\ At("mine", "subhttp") /\ Go("mine", "start")
          /\ lk_inv' = [lk_inv EXCEPT !.submitted = TRUE]
       \/ /\ At("sub", "subhttp") /\ Go("sub", "off")
          /\ UNCHANGED lk_inv
    /\ UNCHANGED << bs_lock, lk_cur, lk_nxt, lk_ret, lk_rest1 >>

\* Pool worker, get work: promote under the lock and clone the work and
\* the block; without a current block sleep and retry.
LkPoolTop ==
    /\ At("work", "topcrit")
    /\ lk_cur' = (lk_cur \/ lk_nxt)
    /\ lk_nxt' = FALSE
    /\ LkRelease("work")
    /\ Go("work", IF lk_cur \/ lk_nxt THEN "gpu" ELSE "nap")
    /\ UNCHANGED << lk_ret, lk_rest >>

\* The critical sections that read or write BlockState and end with the
\* scope of their guard: the solo loop's debug log, index reset and
\* statistics update, and the pool worker's write-back after batches
\* without a hit.
LkSections ==
    { << "mine", "logcrit", "top" >>,
      << "mine", "resetcrit", "gpu" >>,
      << "mine", "statcrit", "start" >>,
      << "work", "wbmisscrit", "top" >> }

LkPlainSection ==
    /\ \E cs \in LkSections :
         /\ At(cs[1], cs[2])
         /\ LkRelease(cs[1])
         /\ Go(cs[1], cs[3])
         /\ metrics_nonces' = metrics_nonces +
                                 (IF cs[2] = "statcrit" THEN lk_inv.nonces ELSE 0)
    /\ UNCHANGED << lk_cur, lk_nxt, lk_ret, lk_rest0, shares_found, hashes_processed,
                    lk_inv >>

\* tokio::time::sleep returns: the periodic fetcher calls
\* update_next_block, the prefetcher and the idle pool worker loop.
LkTimers ==
    { << "per", "sleep", "http" >>,
      << "pre", "sleep", "loop" >>,
      << "work", "nap", "top" >> }

LkWake ==
    /\ \E tm \in LkTimers : At(tm[1], tm[2]) /\ Go(tm[1], tm[3])
    /\ UNCHANGED << bs_lock, lk_cur, lk_nxt, lk_ret, lk_rest >>

\* find_nonce adds the batch to HASHES_PROCESSED once the kernel has run
\* and one to SHARES_FOUND when it returns a nonce.
CountBatches(n, hit) ==
    /\ hashes_processed + n <= MaxCount
    /\ hashes_processed' = hashes_processed + n
    /\ shares_found' = shares_found + (IF hit THEN 1 ELSE 0)

\* A spawn_blocking call returns.  Solo: n batches were enqueued (none when
\* has_nonces_left failed, the base overflowed or the GPU call failed, else
\* one, with a nonce or without), and the call hands back
\* num_nonces_per_search for `counted` batches: for the enqueued one and
\* for one find_nonce skipped for base overflow, which also returns
\* Ok(None).  Pool: up to BATCHES_PER_YIELD batches were enqueued, the last
\* one with a hit or none, and total_nonces has num_nonces_per_search for
\* each of them and for each skipped find_nonce; it is added to
\* metrics_nonces right after.
LkBatchDone ==
    /\ \/ /\ At("mine", "gpu")
          /\ \E n \in 0 .. 1, counted \in 0 .. 1, hit \in BOOLEAN :
               /\ hit => n > 0
               /\ n > 0 => counted > 0
               /\ hit \/ counted = 0 \/ metrics_nonces < MaxCount
               /\ Go("mine", IF hit THEN "take" ELSE "stat")
               /\ CountBatches(n, hit)
               /\ lk_inv' = [lk_inv EXCEPT !.calls = @ + 1, !.batches = @ + n,
                                           !.nonces = counted, !.hit = hit]
          /\ UNCHANGED metrics_nonces
       \/ /\ At("work", "gpu")
          /\ UNCHANGED lk_inv
          /\ \E n \in 0 .. BATCHES_PER_YIELD, skipped \in 0 .. 1, hit \in BOOLEAN :
               /\ hit => n > 0
               /\ metrics_nonces + n + skipped <= MaxCount
               /\ Go("work", IF n + skipped = 0 THEN "top"
                              ELSE IF hit THEN "wbhit" ELSE "wbmiss")
               /\ CountBatches(n, hit)
               /\ metrics_nonces' = metrics_nonces + n + skipped
    /\ UNCHANGED << bs_lock, lk_cur, lk_nxt, lk_ret, lk_rest0 >>

\* Pool worker, hit: the nonce index is written back under the lock, then
\* the refetch and the submission are spawned.
LkPoolHit ==
    /\ At("work", "wbhitcrit")
    /\ At("sp", "off")
    /\ At("sub", "off")
    /\ LkRelease("work")
    /\ lk_pc' = [lk_pc EXCEPT !["work"] = "top", !["sp"] = "http",
                              !["sub"] = "subhttp"]
    /\ UNCHANGED << lk_cur, lk_nxt, lk_ret, lk_rest >>

\* Server::run has spawned the periodic fetcher and the mining task.
LkInit ==
    /\ SrvInit
    /\ FnIdle
    /\ UpIdle
    /\ UIdle
    /\ GIdle
    /\ TkIdle
    /\ lk_pc = [t \in LkTasks |-> IF t = "per" THEN "sleep"
                                  ELSE IF t = "mine" THEN "start" ELSE "off"]
    /\ bs_lock = "free"
    /\ lk_cur = FALSE
    /\ lk_nxt = FALSE
    /\ lk_ret = "off"
    /\ shares_found = 0
    /\ hashes_processed = 0
    /\ metrics_nonces = 0
    /\ lk_inv = NoInvocation

LkNext ==
    \/ LkAcquire
    \/ LkPlainSection
    \/ LkWake
    \/ LkFetchReply
    \/ LkFetchInstall
    \/ LkPrefetchCheck
    \/ LkMinerInitCheck
    \/ LkMinerMode
    \/ LkSoloTop
    \/ LkSoloSpawn
    \/ LkSoloTake
    \/ LkSubmitDone
    \/ LkBatchDone
    \/ LkPoolTop
    \/ LkPoolHit

SpecLock == LkInit /\ [][LkNext]_vars

\* ---- submit_block: the response to submitblock ----

\* JSON values of the fields of a submitblock response body.
JAbsent == [t |-> "absent"]
JNull == [t |-> "null"]
JStr(s) == [t |-> "string", s |-> s]
JOther == [t |-> "object"]

\* What the exchange with the node can give: a transport failure on send
\* or on reading the text, a body that is not JSON, or a JSON object.
SubmitReplies ==
    { [io |-> e] : e \in {"send_err", "text_err"} }
    \cup { [io |-> "ok", json |-> FALSE] }
    \cup { [io |-> "ok", json |-> TRUE, result |-> r, error |-> e] :
             r \in {JAbsent, JNull, JOther, JStr(""), JStr("inconclusive"),
                    JStr("high-hash")},
             e \in {JAbsent, JNull, JOther, JStr("busy")} }

\* serde_json::from_str::<SubmitBlockResponse>: result is Option<String>,
\* error is Option<serde_json::Value>; a missing or null field is None, a
\* result of another type fails the parse.
ParseSubmitResponse(reply) ==
    IF ~reply.json \/ reply.result.t = "object"
    THEN None
    ELSE Some([result |-> IF reply.result.t = "string"
                          THEN Some(reply.result.s) ELSE None,
               error |-> IF reply.error.t \in {"absent", "null"}
                         THEN None ELSE Some(reply.error)])

\* The log lines of the match on the parsed response, as << level, line >>.
SubmitLogs(parsed) ==
    IF ~IsSome(parsed) THEN { << "error", "Failed to parse response" >> }
    ELSE LET p == Unwrap(parsed) IN
         IF ~IsSome(p.result)
         THEN IF IsSome(p.error)
              THEN { << "error", "REJECTED" >>, << "error", "misconfigured" >> }
              ELSE { << "info", "accepted" >> }
         ELSE IF Unwrap(p.result) = ""
              THEN { << "info", "accepted" >> }
              ELSE { << "error", "REJECTED" >>,
                     IF Unwrap(p.result) = "inconclusive"
                     THEN << "warn", "orphan race" >>
                     ELSE << "error", "misconfigured" >> }

\* A submit_block that hands a rejection to its caller as an error.
SubmitBlockErrOnReject(reply) ==
    IF reply.io # "ok" THEN [ret |-> "Err", logs |-> {}, reason |-> None]
    ELSE LET parsed == ParseSubmitResponse(reply)
             logs == SubmitLogs(parsed) IN
         [ret |-> IF << "error", "REJECTED" >> \in logs THEN "Err" ELSE "Ok",
          logs |-> logs,
          reason |-> IF IsSome(parsed) THEN Unwrap(parsed).result ELSE None]

\* submit_block from the send on: `?` returns the transport error; else the
\* body is interpreted, the completion is logged and Ok(()) returned.
\* reason is the string logged with a rejection.
SubmitBlock(reply) ==
    IF reply.io # "ok" THEN [ret |-> "Err", logs |-> {}, reason |-> None]
    ELSE LET parsed == ParseSubmitResponse(reply) IN
         [ret |-> "Ok",
          logs |-> SubmitLogs(parsed),
          reason |-> IF IsSome(parsed) THEN Unwrap(parsed).result ELSE None]

\* ---- create_block and the serialization of submit_block, byte by byte ----

\* A hex string is a sequence of characters; a character is written as a
\* number: 0..15 for '0'..'9','a'..'f', 16..21 for 'A'..'F'; any other
\* number is a character that is no hex digit.
HexVal(c) == IF c \in 0 .. 15 THEN c ELSE IF c \in 16 .. 21 THEN c - 6 ELSE -1

\* hex::encode: two lower-case digits per byte, the high nibble first.
HexEncode(bytes) ==
    [i \in 1 .. 2 * Len(bytes) |->
        IF i % 2 = 1 THEN bytes[(i + 1) \div 2] \div 16 ELSE bytes[i \div 2] % 16]

\* hex::decode: an odd length or a character that is no hex digit is an
\* error.
HexDecodeStr(str) ==
    IF Len(str) % 2 = 1 \/ \E i \in 1 .. Len(str) : HexVal(str[i]) = -1
    THEN None
    ELSE Some([i \in 1 .. Len(str) \div 2 |->
                  16 * HexVal(str[2 * i - 1]) + HexVal(str[2 * i])])

\* A split of the block bytes in which the body starts one byte early.
SplitBlockOverlap(bytes) ==
    [header |-> SubSeq(bytes, 1, HeaderLen),
     body |-> SubSeq(bytes, HeaderLen, Len(bytes))]

\* block[0..160] and block[160..].
SplitBlock(bytes) ==
    [header |-> SubSeq(bytes, 1, HeaderLen),
     body |-> SubSeq(bytes, HeaderLen + 1, Len(bytes))]

\* create_block on the two hex strings of a response.
CreateBlockHex(raw) ==
    LET block == HexDecodeStr(raw.blockhex)
        target_bytes == HexDecodeStr(raw.target)
    IN  IF ~IsSome(block) THEN [ok |-> FALSE, err |-> "InvalidBlockHex"]
        ELSE IF Len(Unwrap(block)) < HeaderLen
             THEN [ok |-> FALSE, err |-> "BlockTooShort"]
        ELSE IF ~IsSome(target_bytes) THEN [ok |-> FALSE, err |-> "InvalidTargetHex"]
        ELSE IF Len(Unwrap(target_bytes)) # HashLen
             THEN [ok |-> FALSE, err |-> "InvalidTargetLength"]
        ELSE [ok |-> TRUE,
              block |-> [header |-> SplitBlock(Unwrap(block)).header,
                         body |-> SplitBlock(Unwrap(block)).body,
                         target |-> Reverse(Unwrap(target_bytes))]]

\* submit_block: header.to_vec(), extend_from_slice(body), hex::encode.
SerializeBlock(block) == HexEncode(block.header \o block.body)

\* create_block on (hex(B), hex(T)), then the block as submit_block sends it.
BlockRoundTrip(x) ==
    LET made == CreateBlockHex([blockhex |-> HexEncode(x.b), target |-> HexEncode(x.t)])
    IN  [made |-> made,
         sent |-> IF made.ok THEN Some(SerializeBlock(made.block)) ELSE None]

\* Byte strings around the header length, with bytes over the whole range,
\* and targets of the right length and one byte longer.
BlockBytes ==
    { [i \in 1 .. n |-> (a * i + c) % 256] :
        n \in HeaderLen - 1 .. HeaderLen + 2, a \in {0, 1, 37}, c \in {0, 15, 255} }

TargetBytes ==
    UNION { [1 .. n -> {0, 26, 255}] : n \in {HashLen, HashLen + 1} }

\* ---- find_nonce: the base of a batch ----

\* The first steps of find_nonce for settings [kernel_exp, inner_exp] and
\* a nonce index: the conversion of num_nonces_per_search to u32 panics,
\* or checked_mul fails and the batch is skipped with a log line, or the
\* kernel is dispatched with offset = base = nonce_idx * 2^shift.
FindNonceBase(x) ==
    IF FindNoncePanics(x) THEN [outcome |-> "panic"]
    ELSE IF ~BaseFits(x, x)
         THEN [outcome |-> "skip", log |-> "Nonce base overflow", ret |-> None]
         ELSE [outcome |-> "dispatch",
               offset |-> [idx |-> x.nonce_idx, shift |-> x.kernel_exp + x.inner_exp]]

\* kernel_size = 1 << config.kernel_size for the accepted sizes 8..30;
\* inner_iter_size is 32 in Server::from_config and 16 in genesis mining;
\* nonce indexes around the limits 2^(32 - shift).
BaseInputs ==
    [kernel_exp : 8 .. 30, inner_exp : {4, 5},
     nonce_idx : {0, 1, 2, 15, 16, 524287, 524288, 1048576}]

\* ---- Miner::setup and num_nonces_per_search ----

\* Miner::setup: the compiler defines the kernel is built with (the
\* settings' values for LotusOG, 64 and 8 for POCLBM); the Miner keeps the
\* settings as they were passed.
MinerSetup(s) ==
    [settings |-> s,
     defines |-> IF s.kernel_type = "LotusOG"
                 THEN [WORKSIZE |-> s.local_work_size,
                       ITERATIONS |-> Pow(2, s.inner_exp)]
                 ELSE [WORKSIZE |-> 64, ITERATIONS |-> 8]]

\* Miner::num_nonces_per_search: settings.kernel_size * settings.inner_iter_size,
\* written as the record of 2^kernel_exp times `times`.
NumNoncesPerSearch(miner) ==
    [kernel_exp |-> miner.settings.kernel_exp,
     times |-> Pow(2, miner.settings.inner_exp)]

\* The settings of Server::from_config and of genesis mining, for both
\* kernel types.
SetupInputs ==
    [kernel_type : {"LotusOG", "POCLBM"}, kernel_exp : 8 .. 30, inner_exp : {4, 5},
     local_work_size : {256}]

SetupAndCount(s) ==
    [miner |-> MinerSetup(s), nps |-> NumNoncesPerSearch(MinerSetup(s))]

\* ---- startup: main, Server::from_config, run_genesis_mining ----

\* Server::from_config up to Miner::setup: the two validations, then the
\* GPU is initialised with kernel_size = 1 << config.kernel_size.
FromConfig(c) ==
    IF c.rpc_poll_interval <= 0 THEN [result |-> "error", why |-> "rpc_poll_interval"]
    ELSE IF c.kernel_size < 8 \/ c.kernel_size > 30
         THEN [result |-> "error", why |-> "kernel_size"]
         ELSE [result |-> "setup", kernel_exp |-> c.kernel_size]

\* run_genesis_mining up to Miner::setup: no validation; 1 << kernel_size
\* on a u32 overflows for a shift outside 0..31, which panics in a build
\* with overflow checks and shifts by the low five bits in one without.
GenesisSetup(c) ==
    IF c.kernel_size \in 0 .. 31 THEN [result |-> "setup", kernel_exp |-> c.kernel_size]
    ELSE IF c.overflow_checks THEN [result |-> "panic"]
         ELSE [result |-> "setup", kernel_exp |-> c.kernel_size % 32]

\* main: genesis mining when the setting is on, else the server.
Startup(c) == IF c.genesis_mining THEN GenesisSetup(c) ELSE FromConfig(c)

\* Configurations (and the build's overflow checks) around the limits.
StartupInputs ==
    [genesis_mining : BOOLEAN, overflow_checks : BOOLEAN,
     rpc_poll_interval : {-1, 0, 1, 3},
     kernel_size : {-1, 7, 8, 21, 30, 31, 32}]

\* ---- header mutation, byte by byte ----

\* header[offset..offset + len].copy_from_slice(bytes), offset counted
\* from 0 as in the program, the sequence from 1.
CopyInto(header, offset, bytes) ==
    [i \in 1 .. Len(header) |->
        IF i \in offset + 1 .. offset + Len(bytes) THEN bytes[i - offset] ELSE header[i]]

\* A set_big_nonce that writes the nonce over the two reserved bytes.
SetBigNonceAt42(work, big_nonce) ==
    [work EXCEPT !.header = CopyInto(work.header, 42, ToLE8(big_nonce))]

\* Work::set_big_nonce on the 160 bytes of the header.
SetBigNonceBytes(work, big_nonce) ==
    [work EXCEPT !.header = CopyInto(work.header, 44, ToLE8(big_nonce))]

\* update_genesis_nonce: offset = 32 + 4 + 6 + 2.
UpdateGenesisNonce(header, n_nonce) == CopyInto(header, 32 + 4 + 6 + 2, ToLE8(n_nonce))

\* An update_genesis_timestamp that writes the time as a u32.
UpdateGenesisTimestampU32(header, n_time) == CopyInto(header, 32 + 4, ToLE4(n_time.lo))

\* update_genesis_timestamp: the six low bytes of n_time at offset 32 + 4.
UpdateGenesisTimestamp(header, n_time) ==
    CopyInto(header, 32 + 4,
             ToLE4(n_time.lo) \o << n_time.hi % 256, (n_time.hi \div 256) % 256 >>)

\* get_timestamp_from_header: u64::from_le_bytes of the six bytes at
\* offset 32 + 4 and two zero bytes.
GetTimestampFromHeader(header) ==
    FromLE8(SubSeq(header, 32 + 4 + 1, 32 + 4 + 6) \o << 0, 0 >>)

\* Headers with distinct bytes, 64-bit values and timestamps (the last
\* one is 2^48).
HeaderBytes == { b \in BlockBytes : Len(b) = HeaderLen }

U64Samples ==
    BigNonces \cup { U64Zero, [lo |-> 16909060, hi |-> 84281096] }

TimeSamples ==
    { [lo |-> 1700000000, hi |-> 0], [lo |-> 0, hi |-> 1], [lo |-> 255, hi |-> 258],
      [lo |-> 16909060, hi |-> 65535], [lo |-> 7, hi |-> 65536] }

\* set_big_nonce(a) once and twice, then set_big_nonce(b), and
\* update_genesis_nonce(b) on the same header.
NonceCalls(x) ==
    LET work == [header |-> x.header, target |-> x.target, nonce_idx |-> x.nonce_idx]
        once == SetBigNonceBytes(work, x.a) IN
    [once |-> once,
     twice |-> SetBigNonceBytes(once, x.a),
     then_b |-> SetBigNonceBytes(once, x.b),
     genesis |-> UpdateGenesisNonce(x.header, x.b)]

\* update_genesis_timestamp, then the timestamp read back.
TimestampCalls(x) ==
    LET header == UpdateGenesisTimestamp(x.header, x.t) IN
    [header |-> header, read |-> GetTimestampFromHeader(header)]

\* ---- genesis_miner.rs: the genesis block ----

\* encode_compact_size, for sizes that fit in 32 bits.
EncodeCompactSize(size) ==
    IF size < 253 THEN << size >>
    ELSE IF size <= 65535 THEN << 253, size % 256, size \div 256 >>
    ELSE << 254 >> \o ToLE4(size)

\* Sha256::digest applied twice: 32 bytes that depend on the data only
\* (the digest itself is not computed).
Sha256d(data) ==
    [i \in 1 .. 32 |-> (data[((7 * i) % Len(data)) + 1] + Len(data) + i) % 256]

\* serialize_block_body(serialize_extended_metadata(), [genesis tx]): the
\* metadata byte 0, the transaction count, and Transaction::serialize of
\* create_genesis_transaction (version 1; the coinbase input with
\* the script sig; the two outputs of SUBSIDY / 2; lock_time 0).
GenesisTxBytes ==
    LET sig == << 39 >> \o <<
                   74, 111, 104, 110, 32, 49, 58, 49, 32, 73, 110, 32, 116,
                   104, 101, 32, 98, 101, 103, 105, 110, 110, 105, 110,
                   103, 32, 119, 97, 115, 32, 116, 104, 101, 32, 76, 111,
                   103, 111, 115 >>
        script0 == << 106, 5, 108, 111, 103, 111, 115, 0, 32 >> \o
                   <<
                   255, 227, 48, 196, 183, 100, 62, 85, 76, 98, 173, 203,
                   224, 184, 5, 55, 67, 93, 136, 139, 92, 51, 213, 226,
                   154, 112, 205, 215, 67, 227, 160, 147 >>
        script1 == << 65 >> \o
                   <<
                   4, 103, 138, 253, 176, 254, 85, 72, 39, 25, 103, 241,
                   166, 113, 48, 183, 16, 92, 214, 168, 40, 224, 57, 9,
                   166, 121, 98, 224, 234, 31, 97, 222, 182, 73, 246, 188,
                   63, 76, 239, 56, 196, 243, 85, 4, 229, 30, 193, 18, 222,
                   92, 56, 77, 247, 186, 11, 141, 87, 138, 76, 112, 43,
                   107, 241, 29, 95 >> \o << 172 >>
        half == ToLE8([lo |-> 130000000, hi |-> 0])
    IN  ToLE4(1) \o EncodeCompactSize(1)
        \o ZeroBytes(32) \o << 255, 255, 255, 255 >>
        \o EncodeCompactSize(Len(sig)) \o sig \o << 255, 255, 255, 255 >>
        \o EncodeCompactSize(2)
        \o half \o EncodeCompactSize(Len(script0)) \o script0
        \o half \o EncodeCompactSize(Len(script1)) \o script1
        \o ToLE4(0)

\* A header whose version byte and size are written one byte early.
BuildGenesisBlockHeaderShifted(n_bits, n_time, n_nonce, merkle_root, meta_hash, block_size) ==
    LET h1 == CopyInto(ZeroBytes(160), 32, ToLE4(n_bits))
        h2 == UpdateGenesisTimestamp(h1, n_time)
        h3 == CopyInto(h2, 44, ToLE8(n_nonce))
        h4 == CopyInto(h3, 51, << 1 >> \o ToLE4(block_size) \o << 0, 0, 0 >>)
        h5 == CopyInto(h4, 96, Reverse(merkle_root))
    IN  CopyInto(h5, 128, Reverse(meta_hash))

\* build_genesis_block_header: nBits at 32, vTime at 36, nNonce at 44,
\* nHeaderVersion 1 at 52, vSize (7 bytes) at 53, the reversed merkle root
\* at 96 and the reversed metadata hash at 128; all else stays zero.
\* block_size is below 2^31 here, so its three high bytes are zero.
BuildGenesisBlockHeader(n_bits, n_time, n_nonce, merkle_root, meta_hash, block_size) ==
    LET h1 == CopyInto(ZeroBytes(160), 32, ToLE4(n_bits))
        h2 == CopyInto(h1, 36, ToLE4(n_time.lo) \o
                                << n_time.hi % 256, (n_time.hi \div 256) % 256 >>)
        h3 == CopyInto(h2, 44, ToLE8(n_nonce))
        h4 == CopyInto(h3, 52, << 1 >> \o ToLE4(block_size) \o << 0, 0, 0 >>)
        h5 == CopyInto(h4, 96, Reverse(merkle_root))
    IN  CopyInto(h5, 128, Reverse(meta_hash))

\* create_genesis_block: the merkle root of the one transaction is the
\* hash of its reversed hash and id (which are the same hash).
CreateGenesisBlock(n_bits, n_time, target) ==
    LET tx_hash == Reverse(Sha256d(GenesisTxBytes))
        merkle_root == Sha256d(tx_hash \o tx_hash)
        metadata == << 0 >>
        body == metadata \o EncodeCompactSize(1) \o GenesisTxBytes
    IN  [header |-> BuildGenesisBlockHeader(n_bits, n_time, U64Zero, merkle_root,
                                            Sha256d(metadata), 160 + Len(body)),
         body |-> body,
         target |-> target]

\* ---- main.rs: bits_to_target ----

\* bits_to_target for bits = exponent * 2^24 + mantissa: the array starts
\* as 32 bytes 0xff; for exponent <= 3 the shifted mantissa goes to bytes
\* 29, 30, 31, low byte first; else, with size = exponent - 3 < 32, bytes
\* [0 .. 32 - size) are cleared and, when 32 - size >= 3, the mantissa is
\* written high byte first into the three bytes below 32 - size.
BitsToTarget(exponent, mantissa) ==
    LET ff == [i \in 1 .. 32 |-> 255]
        size == exponent - 3
        offset == 32 - size
        value == mantissa \div Pow(256, 3 - exponent)
        cleared == [i \in 1 .. 32 |-> IF i <= offset THEN 0 ELSE 255]
    IN  IF exponent <= 3
        THEN CopyInto(ff, 29, << value % 256, (value \div 256) % 256,
                                 (value \div 65536) % 256 >>)
        ELSE IF size >= 32 THEN ff
        ELSE IF offset < 3 THEN cleared
        ELSE CopyInto(cleared, offset - 3,
                      << (mantissa \div 65536) % 256, (mantissa \div 256) % 256,
                         mantissa % 256 >>)

\* ---- single calls of the pure functions ----

\* Step 1 of the mining loop on a BlockState bs = [idx, cb, nb]: the nonce
\* index of current_work and whether current_block and next_block are
\* present.  Promotion gives a fresh work (index 0) under the lock.  Pool:
\* the index is reset in BlockState under the same lock and the work is
\* cloned when there is a block.  Solo: without a block the loop fetches and
\* retries; else it clones the work, resets the clone and takes the lock
\* again to reset BlockState while current_block is present.  The result:
\* whether a batch is dispatched, the index of the work to be mined and the
\* index left in BlockState.
MiningStepOne(pool, bs) ==
    LET promoted == [nonce_idx |-> IF bs.nb THEN 0 ELSE bs.idx]
        has_block == bs.cb \/ bs.nb
        work == ResetHighIdx(promoted)
    IN  IF pool
        THEN [dispatch |-> has_block, work_idx |-> work.nonce_idx,
              bs_idx |-> work.nonce_idx]
        ELSE IF ~has_block
             THEN [dispatch |-> FALSE, work_idx |-> promoted.nonce_idx,
                   bs_idx |-> promoted.nonce_idx]
             ELSE [dispatch |-> TRUE, work_idx |-> work.nonce_idx,
                   bs_idx |-> IF promoted.nonce_idx > NonceIdxLimit /\ has_block
                              THEN 0 ELSE promoted.nonce_idx]

\* The nonce indexes a mining step can find in BlockState: fresh, at the
\* limit, one past it (solo adds one per miss) and up to BATCHES_PER_YIELD
\* past it (the pool worker writes back the index after its batches).
StepIdxSamples == {0, NonceIdxLimit, NonceIdxLimit + 1, NonceIdxLimit + BATCHES_PER_YIELD}

\* ---- lib.rs: calculate_moving_average_hashrate ----
\* Times are in tenths of a second and nonces in units of 10^8, rates are
\* fractions [num, den] of nonce units per tenth of a second.

\* The 60 s of retention, the 15 s of warm-up and the 0.1 s floor of a time
\* difference, in tenths of a second; the cap of 3 * 10^9 nonces per second.
RetainSpan == 600
WarmUpSpan == 150
MinSpan == 1
RateCap == [num |-> 3, den |-> 1]

RateLess(a, b) == a.num * b.den < b.num * a.den
RateEq(a, b) == a.num * b.den = b.num * a.den

\* later.duration_since(earlier) in tenths: None when `earlier` is after
\* `later` (the Err of SystemTime::duration_since).
DurationSince(later, earlier) == IF earlier > later THEN None ELSE Some(later - earlier)

\* A retain that takes a sample from the future to be zero seconds old.
RetainFuture(points, now) ==
    SelectSeq(points, LAMBDA p :
        (IF IsSome(DurationSince(now, p.time)) THEN Unwrap(DurationSince(now, p.time))
         ELSE 0) <= RetainSpan)

\* data_points.retain(...): a sample stays when now.duration_since(time) is
\* Ok and at most 60 s.
Retain(points, now) ==
    SelectSeq(points, LAMBDA p :
        IsSome(DurationSince(now, p.time)) /\ Unwrap(DurationSince(now, p.time)) <= RetainSpan)

\* A warm-up estimate that is not capped.
CappedRateNoCap(single) == single

\* single_point_rate.min(3_000_000_000.0)
CappedRate(single) == IF RateLess(RateCap, single) THEN RateCap ELSE single

\* duration_since(...).unwrap_or_default().as_secs_f64().max(0.1)
SpanOf(later, earlier) ==
    LET d == DurationSince(later, earlier)
    IN  IF IsSome(d) /\ Unwrap(d) > MinSpan THEN Unwrap(d) ELSE MinSpan

\* calculate_moving_average_hashrate on x = [now, metrics, last_total,
\* points]: the clock, metrics_nonces, last_total_nonces and
\* hashrate_data_points.  The result holds the new last_total_nonces and
\* data points, and the raw, capped and returned rates.
MovingAverageHashrate(x) ==
    LET new_nonces == IF x.metrics >= x.last_total THEN x.metrics - x.last_total ELSE 0
        data_points == Retain(Append(x.points, [time |-> x.now, nonces |-> new_nonces]),
                              x.now)
        n == Len(data_points)
        total_nonces == SumSeq([i \in 1 .. n |-> data_points[i].nonces])
        oldest_timestamp == IF n > 0 THEN data_points[1].time ELSE x.now
        time_span == SpanOf(x.now, oldest_timestamp)
        raw_hashrate == [num |-> total_nonces, den |-> time_span]
        single_point_rate ==
            IF n > 1
            THEN [num |-> data_points[n - 1].nonces,
                  den |-> SpanOf(data_points[n].time, data_points[n - 1].time)]
            ELSE raw_hashrate
        capped_rate == CappedRate(single_point_rate)
        blended == [num |-> capped_rate.num * (WarmUpSpan - time_span) * raw_hashrate.den
                              + raw_hashrate.num * time_span * capped_rate.den,
                    den |-> WarmUpSpan * capped_rate.den * raw_hashrate.den]
    IN  [last_total |-> x.metrics,
         points |-> data_points,
         time_span |-> time_span,
         raw |-> raw_hashrate,
         single |-> single_point_rate,
         capped |-> capped_rate,
         reported |-> IF time_span < WarmUpSpan THEN blended ELSE raw_hashrate]

\* The clock of the call and the samples it can find: their times around
\* the 60 s and 1 s marks, one of them after `now`, and their nonces.
HashrateNows == {1000}
SampleTimes == { now + d : now \in HashrateNows, d \in {-601, -600, -10, -5, -1, 0, 5} }
SampleNonces == {0, 10, 15, 20, 30}
Samples == [time : SampleTimes, nonces : SampleNonces]
HashrateInputs ==
    [now : HashrateNows, metrics : {30, 45}, last_total : {0, 15, 20, 30},
     points : { << >> } \cup { << p >> : p \in Samples }
                \cup { << p, q >> : p \in Samples, q \in Samples }]

UnitFns == {"submit_block", "create_block", "find_nonce", "setup", "startup",
            "set_big_nonce", "update_genesis_timestamp", "create_genesis_block",
            "bits_to_target", "mining_step", "hashrate"}

UnitInputs(f) ==
    CASE f = "submit_block" -> SubmitReplies
      [] f = "create_block" -> [b : BlockBytes, t : TargetBytes]
      [] f = "find_nonce" -> BaseInputs
      [] f = "setup" -> SetupInputs
      [] f = "startup" -> StartupInputs
      [] f = "set_big_nonce" ->
            [header : HeaderBytes, target : {NodeTarget}, nonce_idx : {0, 3},
             a : U64Samples, b : U64Samples]
      [] f = "update_genesis_timestamp" -> [header : HeaderBytes, t : TimeSamples]
      [] f = "bits_to_target" ->
            [exponent : {0, 1, 2, 3, 4, 28, 29, 32, 33, 34, 35, 255},
             m1 : {0, 1, 256, 65536, 1048576, 16777215},
             m2 : {1, 256, 65536, 1048576, 16777215}]
      [] f = "hashrate" -> HashrateInputs
      [] f = "mining_step" ->
            [pool : BOOLEAN, idx : StepIdxSamples, cb : BOOLEAN, nb : BOOLEAN]
      [] f = "create_genesis_block" ->
            [n_bits : {0, 16909060, 470810624}, n_time : TimeSamples,
             target : {NodeTarget}]

UnitApply(f, x) ==
    CASE f = "submit_block" -> SubmitBlock(x)
      [] f = "create_block" -> BlockRoundTrip(x)
      [] f = "find_nonce" -> FindNonceBase(x)
      [] f = "setup" -> SetupAndCount(x)
      [] f = "startup" -> Startup(x)
      [] f = "set_big_nonce" -> NonceCalls(x)
      [] f = "update_genesis_timestamp" -> TimestampCalls(x)
      [] f = "bits_to_target" ->
            [t1 |-> BitsToTarget(x.exponent, x.m1), t2 |-> BitsToTarget(x.exponent, x.m2)]
      [] f = "hashrate" -> MovingAverageHashrate(x)
      [] f = "mining_step" -> MiningStepOne(x.pool, x)
      [] f = "create_genesis_block" ->
            [first |-> CreateGenesisBlock(x.n_bits, x.n_time, x.target),
             second |-> CreateGenesisBlock(x.n_bits, x.n_time, x.target)]

UnitInit ==
    /\ SrvInit
    /\ FnIdle
    /\ UpIdle
    /\ LkIdle
    /\ GIdle
    /\ TkIdle
    /\ u_pc = "ready"
    /\ u_fn \in UnitFns
    /\ u_in \in UnitInputs(u_fn)
    /\ u_out = << >>

UnitCall ==
    /\ u_pc = "ready"
    /\ u_pc' = "done"
    /\ u_out' = UnitApply(u_fn, u_in)
    /\ UNCHANGED << u_fn, u_in, fn_vars, up_vars, lk_vars, g_vars, tk_vars, srv_vars >>

SpecUnit == UnitInit /\ [][UnitCall]_vars

\* The value of a hash or target read with its last byte most significant.
RECURSIVE BytesValue(_)
BytesValue(b) == IF b = <<>> THEN 0 ELSE Head(b) + 256 * BytesValue(Tail(b))

\* C1: a nonce returned by find_nonce, written little-endian into bytes
\* [44..52) of the work's header, gives a header whose Lotus hash is at most
\* the target; its low half is the byte-swapped image of a scanned output
\* word and its high half is bytes [48..52) of the work's big-nonce.
C1_ReturnedNonceMeetsTarget ==
    (fn_pc = "done" /\ IsSome(fn_result)) =>
        LET n == Unwrap(fn_result)
            header == [fn_work.header EXCEPT !.nonce = ToLE8(n)]
        IN  /\ BytesValue(LotusHash(header)) <= BytesValue(fn_work.target)
            /\ n.hi = FromLE4(SubSeq(fn_work.header.nonce, 5, 8))
            /\ \E i \in 0..(OutFlagIdx - 2) : n.lo = SwapBytes(fn_out[i])

C1_Witness ==
    /\ fn_pc = "done"
    /\ IsSome(fn_result)
    /\ Unwrap(fn_result).hi # 0
    /\ Unwrap(fn_result).lo = 16777216

\* C2: in every reachable state of the server, in pool and in solo mode,
\* whenever BlockState.current_block is present, current_work.header equals
\* current_block.header.
C2_WorkHeaderIsBlockHeader ==
    IsSome(current_block) => current_work.header = Unwrap(current_block).header

\* A block is being mined whose batches have advanced the nonce index while
\* a submission of a found share is in flight.
C2_Witness ==
    /\ IsSome(current_block)
    /\ current_work.nonce_idx > 0
    /\ sub_req # EmptyBag

\* C3 (as stated): when the node answers with a non-2xx status, or with a
\* body that cannot be parsed, update_next_block returns without mutating
\* BlockState (current_work, current_block, next_block, extra_nonce),
\* whatever the body of the non-2xx response contains.
C3_BadResponseLeavesBlockState ==
    (up_pc = "done" /\ up_o.got /\ (up_o.status \notin 200..299 \/ up_o.kind = "garbage")) =>
        bs_vars = up_pre

\* C4: for every response whose result is missing, whose blockhex is not
\* valid hex or decodes to fewer than 160 bytes, or whose target is not valid
\* hex of exactly 32 bytes, update_next_block returns Ok and leaves
\* BlockState (current_work, current_block, next_block, extra_nonce) as it
\* was.
C4_ProtocolFailureDiscarded ==
    (up_pc = "done" /\ up_o.got /\ up_o.kind \in ProtocolFailures) =>
        (up_res = "Ok" /\ bs_vars = up_pre)

\* A response with a target of the wrong length has been handled while a
\* block was being mined and another was waiting.
C4_Witness ==
    /\ up_pc = "done"
    /\ up_o.got
    /\ up_o.kind = "badtargetlen"
    /\ up_o.status = 200
    /\ IsSome(current_block)
    /\ IsSome(next_block)

\* The blocks the node's templates parse to.
FetchedBlocks == { TemplateBlock(t) : t \in Templates }

\* A step that installs a fetched block.
InstallStep == installs' # installs

\* C5: every successful fetch increases extra_nonce by exactly 1 and makes
\* next_block the fetched block, leaving current_block and current_work
\* unchanged; extra_nonce always equals the number of blocks installed so far
\* and never decreases, even when several fetches run concurrently.
C5_InstallCountsExtraNonce ==
    /\ [](extra_nonce = installs)
    /\ [][extra_nonce' >= extra_nonce]_vars
    /\ [][InstallStep =>
            /\ installs' = installs + 1
            /\ extra_nonce' = extra_nonce + 1
            /\ \E b \in FetchedBlocks : next_block' = Some(b)
            /\ UNCHANGED << current_work, current_block >>]_vars

\* Two blocks have been installed while a block was being mined and two
\* more fetches were in flight.
C5_Witness ==
    /\ extra_nonce >= 2
    /\ IsSome(current_block)
    /\ IsSome(per_req)
    /\ sp_req # EmptyBag

\* The block an install step puts into next_block.
Installed == Unwrap(next_block')

\* C6 (as stated): the chain-tip-started event is emitted at most once along
\* any execution: once it has been logged, every later install logs
\* chain-tip-switched or no chain-tip event.
C6_StartedAtMostOnce ==
    [][(InstallStep /\ ev_started) => TipEvent(Installed) # "started"]_vars

\* C7 (as stated), on the polls A, B, B (A is tip 1, B is tip 2): while the block of tip A is being
\* mined and the block of tip B has been installed, so that "Switched to new
\* chain tip" has been logged for the change, a further install of B logs no
\* second one.
C7_SwitchedExactlyOnce ==
    [][(/\ InstallStep
        /\ installs = 2
        /\ IsSome(current_block) /\ PrevHash(Unwrap(current_block)) = 1
        /\ IsSome(next_block) /\ PrevHash(Unwrap(next_block)) = 2
        /\ ev_switched
        /\ PrevHash(Installed) = 2)
       => TipEvent(Installed) # "switched"]_vars

\* A step of the mining loop that takes the BlockState lock and dispatches.
LockStep ==
    \/ w_pc = "getwork" /\ w_pc' = "gpu"
    \/ m_pc = "getwork" /\ m_pc' # "getwork"

\* A batch of the mining loop is in flight.
BatchInFlight == w_pc = "gpu" \/ m_pc = "gpu"

PoolHitStep == w_pc = "gpu" /\ w_pc' = "getwork" /\ sub_req' # sub_req

\* The solo loop handles a batch result with an accepted nonce and a block
\* to submit.
SoloHitStep == m_pc = "gpu" /\ m_pc' = "subwait"

\* Header h is the header of `work` with an accepted nonce in it.
AcceptedHeader(h, work) ==
    /\ h.prev = work.header.prev
    /\ h.rest = work.header.rest
    /\ HashBelowTarget(LotusHash(h), work.target)

AwaitsSubmit == m_pc = "subwait"

GpuBatches == (IF w_pc = "gpu" THEN 1 ELSE 0) + (IF m_pc = "gpu" THEN 1 ELSE 0)

\* C11: at any time at most one GPU batch is in flight: the pool worker and
\* the loop of the mining task never run find_nonce at the same time, and
\* only the one the mode selects ever runs it.
C11_OneBatchInFlight ==
    /\ GpuBatches <= 1
    /\ pool_mining => m_pc # "gpu"
    /\ ~pool_mining => w_pc = "off"

\* A pool batch is in flight while the periodic fetch, the prefetch and a
\* refetch spawned by an earlier share are all in flight.
C11_Witness ==
    /\ GpuBatches = 1
    /\ w_pc = "gpu"
    /\ IsSome(per_req)
    /\ pre_pc = "wait"
    /\ sp_req # EmptyBag

\* The positions at which a task is doing I/O: an HTTP exchange with the
\* node (getrawunsolvedblock, submitblock) or a GPU batch.
IoPcs == {"http", "subhttp", "gpu"}

\* The positions inside a critical section on BlockState.
CritPcs == {"install", "check", "initcheck", "logcrit", "topcrit", "resetcrit",
            "takecrit", "statcrit", "wbhitcrit", "wbmisscrit"}

\* C12: no task holds the BlockState lock while it performs an HTTP request
\* or a GPU batch: the lock is held only by a task inside one of its
\* critical sections, and every critical section has ended when the task
\* starts network or GPU I/O.
C12_LockNotHeldAcrossIo ==
    /\ \A t \in LkTasks : lk_pc[t] \in IoPcs => bs_lock # t
    /\ bs_lock # "free" => lk_pc[bs_lock] \in CritPcs

\* The mining task awaits the update_next_block it called from its get-work
\* step, and another task is inside a critical section meanwhile.
C12_Witness ==
    /\ lk_pc["mine"] = "http"
    /\ lk_ret = "log"
    /\ bs_lock = "per"

\* A finished call of function f.
Called(f) == u_pc = "done" /\ u_fn = f

Accepted == { << "info", "accepted" >> }
Rejected == { << "error", "REJECTED" >>, << "error", "misconfigured" >> }

\* C13: whenever the node's response arrives, submit_block returns Ok, and
\* it reads the body so: no result and no error, or an empty result
\* string, is an acceptance; the result "inconclusive" warns of an orphan
\* race; another non-empty result string is a rejection logged with that
\* string; no result with an error value is a rejection; a body that does
\* not parse is logged as a parse failure.
C13_SubmitResponseInterpreted ==
    (Called("submit_block") /\ u_in.io = "ok") =>
        /\ u_out.ret = "Ok"
        /\ ~u_in.json => u_out.logs = { << "error", "Failed to parse response" >> }
        /\ (u_in.json /\ u_in.result.t \in {"absent", "null"}) =>
               u_out.logs = IF u_in.error.t \in {"absent", "null"}
                            THEN Accepted ELSE Rejected
        /\ (u_in.json /\ u_in.result = JStr("")) => u_out.logs = Accepted
        /\ (u_in.json /\ u_in.result = JStr("inconclusive")) =>
               /\ << "warn", "orphan race" >> \in u_out.logs
               /\ << "error", "misconfigured" >> \notin u_out.logs
        /\ (u_in.json /\ u_in.result = JStr("high-hash")) =>
               /\ u_out.logs = Rejected
               /\ u_out.reason = Some("high-hash")

\* A response whose result is "inconclusive" has been interpreted.
C13_Witness ==
    /\ Called("submit_block")
    /\ u_in.io = "ok" /\ u_in.json
    /\ u_in.result = JStr("inconclusive")
    /\ u_out.ret = "Ok"

\* A submit_block call returns: its task leaves the submission.
SubmitReturns ==
    \E t \in {"mine", "sub"} : lk_pc[t] = "subhttp" /\ lk_pc'[t] # "subhttp"

\* C14: shares_found never decreases in any step, and the step in which a
\* submit_block call takes its response and returns leaves shares_found,
\* hashes_processed and metrics_nonces as they were.
C14_SubmissionChangesNoCounter ==
    [][/\ shares_found' >= shares_found
       /\ SubmitReturns => UNCHANGED cnt_vars]_vars

\* Pool mode: the one batch run so far gave a share, every counter has
\* counted it, and the submission spawned for it has returned.
C14_Witness ==
    /\ pool_mining
    /\ shares_found = 1
    /\ hashes_processed = 1
    /\ metrics_nonces = 1
    /\ lk_pc["work"] \in {"top", "topcrit", "gpu", "nap"}
    /\ lk_pc["sub"] = "off"

\* C15: for a byte string B of at least 160 bytes and a target T of the hash
\* length, create_block on their hex strings succeeds; the header is the
\* first 160 bytes of B, the body the bytes after them, the target is T
\* reversed; and the hex string submit_block builds from header and body
\* decodes to B byte for byte.
C15_BlockRoundTrip ==
    (Called("create_block") /\ Len(u_in.b) >= 160 /\ Len(u_in.t) = HashLen) =>
        /\ u_out.made.ok
        /\ LET blk == u_out.made.block
               back == HexDecodeStr(Unwrap(u_out.sent)) IN
           /\ Len(blk.header) = 160
           /\ \A i \in 1 .. 160 : blk.header[i] = u_in.b[i]
           /\ Len(blk.body) = Len(u_in.b) - 160
           /\ \A i \in 1 .. Len(blk.body) : blk.body[i] = u_in.b[160 + i]
           /\ \A i \in 1 .. HashLen : blk.target[i] = u_in.t[HashLen + 1 - i]
           /\ IsSome(back)
           /\ Unwrap(back) = u_in.b

\* A block with a body of two bytes that differ has been parsed and
\* serialized again.
C15_Witness ==
    /\ Called("create_block")
    /\ Len(u_in.b) = 162
    /\ u_in.b[161] # u_in.b[162]
    /\ Len(u_in.t) = HashLen
    /\ u_in.t[1] # u_in.t[HashLen]
    /\ u_out.made.ok
    /\ IsSome(u_out.sent)

\* nonce_idx * 2^shift is below 2^32.
FitsU32(idx, shift) == idx = 0 \/ (shift < 32 /\ idx < Pow(2, 32 - shift))

\* C16: for every accepted kernel size, the inner_iter_size in use and
\* every nonce index, find_nonce does not panic: when nonce_idx times
\* num_nonces_per_search does not fit in 32 bits it logs and returns
\* no nonce without a dispatch, and otherwise it dispatches the batch with
\* the product as offset.
C16_BaseOverflowSkipsBatch ==
    Called("find_nonce") =>
        LET shift == u_in.kernel_exp + u_in.inner_exp IN
        IF FitsU32(u_in.nonce_idx, shift)
        THEN /\ u_out.outcome = "dispatch"
             /\ u_out.offset = [idx |-> u_in.nonce_idx, shift |-> shift]
        ELSE /\ u_out.outcome = "skip"
             /\ u_out.ret = None

\* C17: for both kernel types num_nonces_per_search is kernel_size times
\* the ITERATIONS value the kernel was built with: the configured
\* inner_iter_size for LotusOG, the overriding 8 for POCLBM.
C17_HostCountMatchesKernel ==
    Called("setup") =>
        /\ u_out.nps.kernel_exp = u_in.kernel_exp
        /\ u_out.nps.times = u_out.miner.defines.ITERATIONS
        /\ u_in.kernel_type = "POCLBM" => u_out.miner.defines.ITERATIONS = 8

\* C18: on the normal and on the genesis startup path, a configuration
\* whose rpc_poll_interval is not positive or whose kernel_size is outside
\* 8..30 ends in an error before the GPU is set up.
C18_BadConfigRejectedAtStartup ==
    (/\ Called("startup")
     /\ \/ u_in.rpc_poll_interval <= 0
        \/ u_in.kernel_size < 8
        \/ u_in.kernel_size > 30) => u_out.result = "error"

\* Headers h and g are equal at every byte outside [from, to) (offsets
\* counted from 0, over all 160 bytes).
SameOutside(h, g, from, to) ==
    /\ Len(h) = 160
    /\ Len(g) = 160
    /\ \A i \in 1 .. 160 : (i <= from \/ i > to) => h[i] = g[i]

\* Byte k (from 0) of the little-endian encoding of the u64 n.
LEByte(n, k) ==
    IF k < 4 THEN (n.lo \div Pow(256, k)) % 256 ELSE (n.hi \div Pow(256, k - 4)) % 256

\* C19: set_big_nonce(a) twice gives the header of set_big_nonce(a) once;
\* set_big_nonce and update_genesis_nonce change no byte outside
\* [44..52), and set_big_nonce leaves target and nonce_idx alone; after
\* set_big_nonce(b) bytes [44..52) are b in little-endian order.
C19_BigNonceFrame ==
    Called("set_big_nonce") =>
        /\ u_out.twice = u_out.once
        /\ SameOutside(u_out.once.header, u_in.header, 44, 52)
        /\ SameOutside(u_out.then_b.header, u_in.header, 44, 52)
        /\ SameOutside(u_out.genesis, u_in.header, 44, 52)
        /\ \A w \in {u_out.once, u_out.then_b} :
              w.target = u_in.target /\ w.nonce_idx = u_in.nonce_idx
        /\ \A k \in 0 .. 7 :
              /\ u_out.then_b.header[44 + k + 1] = LEByte(u_in.b, k)
              /\ u_out.genesis[44 + k + 1] = LEByte(u_in.b, k)

\* Two different big-nonces with non-zero halves have been set on a work
\* whose nonce index is not zero.
C19_Witness ==
    /\ Called("set_big_nonce")
    /\ u_in.a # u_in.b
    /\ u_in.a.hi # 0
    /\ u_in.b.lo = 16909060
    /\ u_in.nonce_idx = 3
    /\ u_out.then_b.header # u_out.once.header
    /\ u_out.once.header # u_in.header

\* C20: for a timestamp t below 2^48, after update_genesis_timestamp the
\* 48-bit little-endian value at bytes [36..42) is t, and no byte outside
\* [36..42) has changed.
C20_TimestampWritten ==
    (Called("update_genesis_timestamp") /\ u_in.t.hi < 65536) =>
        /\ u_out.read = u_in.t
        /\ \A k \in 0 .. 5 : u_out.header[36 + k + 1] = LEByte(u_in.t, k)
        /\ SameOutside(u_out.header, u_in.header, 36, 42)

\* A timestamp that needs more than 32 bits has been written over other
\* bytes.
C20_Witness ==
    /\ Called("update_genesis_timestamp")
    /\ u_in.t = [lo |-> 255, hi |-> 258]
    /\ u_out.header # u_in.header
    /\ u_out.read = u_in.t

\* C21: create_genesis_block returns a header of 160 bytes with n_bits
\* little-endian at [32..36), the low 48 bits of n_time at [36..42), zero
\* at [44..52), 1 at byte 52, 160 + len(body) little-endian at [53..60) and
\* zero at [0..32), [42..44) and [60..96); the body is not empty and
\* starts with 0, 1; a second call with the same arguments returns the
\* same header and body.
C21_GenesisHeaderLayout ==
    Called("create_genesis_block") =>
        LET h == u_out.first.header
            body == u_out.first.body IN
        /\ Len(h) = 160
        /\ \A k \in 0 .. 3 : h[32 + k + 1] = LEByte([lo |-> u_in.n_bits, hi |-> 0], k)
        /\ \A k \in 0 .. 5 : h[36 + k + 1] = LEByte(u_in.n_time, k)
        /\ \A i \in 44 .. 51 : h[i + 1] = 0
        /\ h[52 + 1] = 1
        /\ \A k \in 0 .. 6 : h[53 + k + 1] = LEByte([lo |-> 160 + Len(body), hi |-> 0], k)
        /\ \A i \in (0 .. 31) \cup (42 .. 43) \cup (60 .. 95) : h[i + 1] = 0
        /\ Len(body) >= 2
        /\ body[1] = 0
        /\ body[2] = 1
        /\ u_out.second.header = h
        /\ u_out.second.body = body

\* The testnet bits and a time with bits above 32 have been built into a
\* header whose size field is not zero.
C21_Witness ==
    /\ Called("create_genesis_block")
    /\ u_in.n_bits = 470810624
    /\ u_in.n_time = [lo |-> 255, hi |-> 258]
    /\ u_out.first.header[54] # 0
    /\ Len(u_out.first.body) > 160

\* Target a is at most target b in the order in which find_nonce compares
\* a hash with a target: from the last byte down.
TargetLeq(a, b) ==
    \/ a = b
    \/ \E i \in 1 .. 32 : a[i] < b[i] /\ \A j \in i + 1 .. 32 : a[j] = b[j]

\* C22: with the same exponent and mantissas m1 <= m2, the target of m1
\* is at most the target of m2 in the verifier's byte order (byte 31 most
\* significant).
C22_BitsToTargetMonotone ==
    (Called("bits_to_target") /\ u_in.m1 <= u_in.m2) => TargetLeq(u_out.t1, u_out.t2)

\* C23: for an exponent above 3 the target is zero except for the three
\* mantissa bytes at [32 - exp - 3 .. 32 - exp); for an exponent of at
\* most 3 it is zero except for mant >> (8 * (3 - exp)) in three bytes
\* (taken here as the bytes 29, 30, 31 the program writes, low byte
\* first).
C23_BitsToTargetLayout ==
    Called("bits_to_target") =>
        LET e == u_in.exponent
            m == u_in.m1
            v == m \div Pow(256, 3 - e)
            be == << (m \div 65536) % 256, (m \div 256) % 256, m % 256 >>
            le == << v % 256, (v \div 256) % 256, (v \div 65536) % 256 >> IN
        \A i \in 0 .. 31 :
            u_out.t1[i + 1] =
                IF e > 3
                THEN IF i \in 32 - e - 3 .. 32 - e - 1 THEN be[i - (32 - e - 3) + 1] ELSE 0
                ELSE IF i \in 29 .. 31 THEN le[i - 29 + 1] ELSE 0

\* An invocation of mine_some_nonces returns in solo mode: the loop of
\* lib.rs 699-868 breaks and the function is back at its entry.
SoloReturns == lk_pc["mine"] # "start" /\ lk_pc'["mine"] = "start"

\* C24 (as stated): in solo mode every invocation of mine_some_nonces
\* dispatches exactly one GPU batch and then returns, and after a nonce it
\* returns only once submit_block has returned.
C24_SoloExactlyOneBatch ==
    [][SoloReturns =>
          /\ lk_inv'.batches = 1
          /\ lk_inv'.hit => lk_inv'.submitted]_vars

\* C24 (amended): every solo invocation makes exactly one spawn_blocking
\* call and dispatches at most one GPU batch (none when has_nonces_left
\* fails, the base overflows or the GPU call fails); a nonce comes from a
\* dispatched batch and the invocation then returns only after submit_block
\* has returned.
C24_SoloAtMostOneBatch ==
    [][SoloReturns =>
          /\ lk_inv'.calls = 1
          /\ lk_inv'.batches <= 1
          /\ lk_inv'.hit => (lk_inv'.batches = 1 /\ lk_inv'.submitted)]_vars

\* A solo invocation has returned after its batch gave a nonce and the
\* submission was carried out.
C24_Witness ==
    /\ lk_pc["mine"] = "start"
    /\ lk_inv.calls = 1
    /\ lk_inv.hit
    /\ lk_inv.submitted

\* Header h is a header on which find_nonce, called on `work` when the GPU
\* returned `out`, verified the hash, and the nonce find_nonce returned for
\* it is the one h carries, little-endian, in its nonce bytes.
VerifiedWithNonce(h, work, out) ==
    \E i \in 0 .. OutFlagIdx - 2 :
        LET header == CandidateHeader(work.header, out[i])
        IN  /\ FindNonce(settings, work, out) = Some(FromLE8(header.nonce))
            /\ HashBelowTarget(LotusHash(header), work.target)
            /\ h.nonce = ToLE8(FromLE8(header.nonce))
            /\ h = header

\* C25: a submitblock request is sent in the step that handles the result
\* of the find_nonce call that returned its nonce; the header it carries has
\* that nonce, little-endian, in its nonce bytes and is otherwise the header
\* on which find_nonce verified the hash.
C25_SubmittedHeaderIsVerified ==
    /\ [][SoloHitStep =>
            \E out \in GpuOuts :
                VerifiedWithNonce(Unwrap(l_block').header, l_work, out)]_vars
    /\ [][PoolHitStep =>
            \E b \in BagToSet(sub_req'), bn \in RngDraws, out \in GpuOuts,
               idx \in 0 .. MaxNonceIdx :
                /\ sub_req' = sub_req (+) SetToBag({b})
                /\ VerifiedWithNonce(b.header,
                      [SetBigNonce(l_work, bn) EXCEPT !.nonce_idx = idx], out)]_vars
    /\ [][sub_req' # sub_req /\ BagCardinality(sub_req') > BagCardinality(sub_req)
            => PoolHitStep]_vars
    /\ [][m_pc' = "subwait" /\ m_pc # "subwait" => SoloHitStep]_vars

\* The solo loop has sent a submission whose header carries a found nonce
\* with a non-zero low word.
C25_Witness ==
    /\ ~pool_mining
    /\ m_pc = "subwait"
    /\ IsSome(l_block)
    /\ \E i \in 1 .. 4 : Unwrap(l_block).header.nonce[i] # 0

\* The solo loop handles a batch result with an accepted nonce, with or
\* without a block to take: only a miss advances current_work.nonce_idx.
SoloHandlesHit == m_pc = "gpu" /\ m_pc' # "gpu" /\ current_work' = current_work

\* C26: whenever a batch has returned an accepted nonce,
\* BlockState.current_block is present when the loop handles the hit; the
\* branch "found nonce but no current_block" is never taken.
C26_BlockPresentAtHit ==
    /\ [][SoloHandlesHit => (IsSome(current_block) /\ m_pc' = "subwait")]_vars
    /\ [][PoolHitStep => IsSome(current_block)]_vars

\* A solo hit has been handled: the block was taken out of BlockState and
\* is on its way to the node.
C26_Witness ==
    /\ ~pool_mining
    /\ m_pc = "subwait"
    /\ current_block = None
    /\ IsSome(l_block)

\* The output slots the kernel may write a candidate to: the words below
\* the found flag (words 0..127 of the buffer, the flag being word 128).
KernelSlots == 0 .. OutFlagIdx - 1

\* Slot i of the output holds a non-zero candidate whose header hash is
\* below the target of the work.
GoodSlot(i) ==
    /\ SwapBytes(fn_out[i]) # 0
    /\ HashBelowTarget(LotusHash(CandidateHeader(fn_work.header, fn_out[i])),
                       fn_work.target)

\* C27: when the batch was dispatched, the found flag is set and some
\* kernel slot holds a non-zero candidate whose header hash is below the
\* target, find_nonce returns the nonce of the lowest such slot: the host
\* scan skips no slot the kernel may write.
C27_ScanCoversKernelSlots ==
    (/\ fn_pc = "done"
     /\ BaseFits(fn_settings, fn_work)
     /\ fn_out[OutFlagIdx] # 0
     /\ \E i \in KernelSlots : GoodSlot(i)) =>
        LET first == CHOOSE i \in KernelSlots :
                         GoodSlot(i) /\ \A j \in 0 .. i - 1 : ~GoodSlot(j)
        IN  fn_result =
              Some(FromLE8(CandidateHeader(fn_work.header, fn_out[first]).nonce))

\* The highest byte index at which hash and target differ, 0 when they are
\* equal in every byte.
FirstDifference(hash, target) ==
    LET diff == { i \in 1 .. HashLen : hash[i] # target[i] }
    IN  IF diff = {} THEN 0 ELSE CHOOSE i \in diff : \A j \in diff : j <= i

\* The hash of the header find_nonce builds for output slot i.
SlotHash(i) == LotusHash(CandidateHeader(fn_work.header, fn_out[i]))

\* The candidate of slot i is one the claim accepts: scanning from the last
\* byte down, hash and target differ somewhere and at the first difference
\* the hash byte is the smaller one.  The last byte of the hash plays no
\* other part.
AcceptedByFirstDifference(i) ==
    LET d == FirstDifference(SlotHash(i), fn_work.target)
    IN  d # 0 /\ SlotHash(i)[d] < fn_work.target[d]

\* The non-zero candidates among the scanned slots that the claim accepts.
AcceptedSlots ==
    { i \in 0 .. OutFlagIdx - 2 :
        SwapBytes(fn_out[i]) # 0 /\ AcceptedByFirstDifference(i) }

\* C28: a candidate is accepted exactly when, from byte 31 down to byte 0,
\* the first byte where hash and target differ is smaller in the hash; it is
\* rejected when that byte is larger in the hash and when hash and target
\* are equal; a non-zero last byte of the hash is only logged as a bug.  So
\* find_nonce returns a nonce exactly when a scanned slot holds such a
\* candidate, and the nonce of the first one.
C28_AcceptedByFirstDifference ==
    (fn_pc = "done" /\ BaseFits(fn_settings, fn_work) /\ fn_out[OutFlagIdx] # 0) =>
        IF AcceptedSlots = {} THEN fn_result = None
        ELSE LET first == CHOOSE i \in AcceptedSlots : \A j \in AcceptedSlots : i <= j
             IN  fn_result =
                   Some(FromLE8(CandidateHeader(fn_work.header, fn_out[first]).nonce))

\* find_nonce returned the nonce of a candidate whose hash does not end in
\* a zero byte, having passed over a candidate whose hash equals the target.
C28_Witness ==
    /\ fn_pc = "done"
    /\ IsSome(fn_result)
    /\ \E i \in AcceptedSlots :
         /\ fn_result = Some(FromLE8(CandidateHeader(fn_work.header, fn_out[i]).nonce))
         /\ SlotHash(i)[HashLen] # 0
         /\ \E j \in 0 .. i - 1 :
              SwapBytes(fn_out[j]) # 0 /\ SlotHash(j) = fn_work.target

\* C29: at the end of step 1 of a mining-loop step that dispatches a batch,
\* in pool and in solo mode, the nonce index of the work to be mined and
\* the one in BlockState.current_work are both at most 1000; an index above
\* 1000 has been reset to 0 in both.
C29_NonceIdxResetBeforeBatch ==
    (Called("mining_step") /\ u_out.dispatch) =>
        /\ u_out.work_idx <= NonceIdxLimit
        /\ u_out.bs_idx <= NonceIdxLimit
        /\ (u_in.idx > NonceIdxLimit /\ ~u_in.nb) =>
               (u_out.work_idx = 0 /\ u_out.bs_idx = 0)
        /\ (u_in.idx <= NonceIdxLimit /\ ~u_in.nb) =>
               (u_out.work_idx = u_in.idx /\ u_out.bs_idx = u_in.idx)

\* A solo step found the index one past the limit on the block it keeps
\* mining and dispatched its batch with index 0.
C29_Witness ==
    /\ Called("mining_step")
    /\ ~u_in.pool
    /\ u_in.idx = NonceIdxLimit + 1
    /\ ~u_in.nb
    /\ u_out.dispatch
    /\ u_out.work_idx = 0
    /\ u_out.bs_idx = 0

\* ------------------------------------------------- run_genesis_mining
\* The compact targets and the clock readings of the genesis runs.
GenesisBits == {470810624}

g_rest == << fn_vars, up_vars, lk_vars, u_vars, tk_vars, srv_vars >>

\* run_genesis_mining up to its loop: the genesis block is created for the
\* current time and the timer of the timestamp update is started.
GenesisInit ==
    /\ SrvInit
    /\ FnIdle
    /\ UpIdle
    /\ LkIdle
    /\ UIdle
    /\ TkIdle
    /\ g_pc = "top"
    /\ \E n_bits \in GenesisBits, initial_time \in TimeSamples :
         g_header = CreateGenesisBlock(n_bits, initial_time, NodeTarget).header
    /\ g_work = WorkDefault
    /\ g_elapsed = FALSE
    /\ g_report = << >>

\* Time passes and the timestamp refreshes itself when 30 s are over,
\* whatever the loop is doing.
GenesisElapseAndRefresh ==
    /\ g_pc \in {"top", "gpu"}
    /\ ~g_elapsed
    /\ \E new_time \in TimeSamples :
         g_header' = UpdateGenesisTimestamp(g_header, new_time)
    /\ UNCHANGED << g_pc, g_work, g_elapsed, g_report, g_rest >>

\* Time passes: more than 30 s since the last timestamp update.
GenesisElapse ==
    /\ g_pc \in {"top", "gpu"}
    /\ ~g_elapsed
    /\ g_elapsed' = TRUE
    /\ UNCHANGED << g_pc, g_header, g_work, g_report, g_rest >>

\* The head of the loop: update the timestamp when 30 s have passed, make
\* the work from the header, draw the nonce base and call find_nonce.
GenesisRound ==
    /\ g_pc = "top"
    /\ \E new_time \in TimeSamples, nonce_base \in U64Samples :
         LET header == IF g_elapsed THEN UpdateGenesisTimestamp(g_header, new_time)
                       ELSE g_header
         IN  /\ g_header' = header
             /\ g_work' = SetBigNonceBytes(WorkFromHeader(header, NodeTarget), nonce_base)
    /\ g_elapsed' = FALSE
    /\ g_pc' = "gpu"
    /\ UNCHANGED << g_report, g_rest >>

\* find_nonce returns.  Without a nonce (or with an error) the loop goes
\* round.  With one: the candidate was spliced into bytes [44..48) of a
\* copy of the work's header, whose hash was verified, and the nonce is the
\* u64 of its bytes [44..52); update_genesis_nonce writes it into
\* genesis_block.header, and timestamp and nonce are reported.
GenesisBatch ==
    /\ g_pc = "gpu"
    /\ \/ /\ g_pc' = "top"
          /\ UNCHANGED << g_header, g_report >>
       \/ \E word \in CandWords \ {0} :
            LET verified == CopyInto(g_work.header, 44, ToLE4(SwapBytes(word)))
                found_nonce == FromLE8(SubSeq(verified, 45, 52))
                header == UpdateGenesisNonce(g_header, found_nonce)
            IN  /\ g_header' = header
                /\ g_report' = [verified |-> verified,
                                timestamp |-> GetTimestampFromHeader(header),
                                nonce |-> found_nonce]
                /\ g_pc' = "done"
    /\ UNCHANGED << g_work, g_elapsed, g_rest >>

GenesisNext == GenesisElapse \/ GenesisRound \/ GenesisBatch

SpecGenesis == GenesisInit /\ [][GenesisNext]_vars

\* ------------------------------------------------------- locks of Server
\* The mutexes of Server and the tasks that take them.
ServerLocks == {"block_state", "node_settings", "miner", "rng",
                "metrics_timestamp", "hashrate_data_points"}

ServerTasks == {"poller", "miner_loop", "prefetcher", "blocking", "spawned"}

\* The steps of a task: take a lock, drop its guard, go on at one of several
\* places (offsets from the step), start a task, await a task.
Acq(l) == [op |-> "acq", lock |-> l, jump |-> {1}, task |-> "none"]
Rel(l) == [op |-> "rel", lock |-> l, jump |-> {1}, task |-> "none"]
Br(offsets) == [op |-> "br", lock |-> "none", jump |-> offsets, task |-> "none"]
SpawnTask(t) == [op |-> "spawn", lock |-> "none", jump |-> {1}, task |-> t]
JoinTask(t) == [op |-> "join", lock |-> "none", jump |-> {1}, task |-> t]

\* A guard taken and dropped with no other lock taken in between.
Locked(l) == << Acq(l), Rel(l) >>

\* Steps done or not; steps repeated for ever; a head after which either
\* `again` runs and the head is retried (continue), or `rest` runs.
Opt(part) == << Br({1, Len(part) + 1}) >> \o part
Loop(body) == body \o << Br({-Len(body)}) >>
RetryOr(head, again, rest) ==
    head \o << Br({1, Len(again) + 2}) >> \o again
         \o << Br({-(Len(head) + Len(again) + 1)}) >> \o rest

\* update_next_block: node_settings for the url, for miner_addr and in
\* init_request, each guard dropped at once; then, unless the response was
\* an error or did not parse, block_state to the end of the function.
LocksOfUpdateNextBlock ==
    Locked("node_settings") \o Locked("node_settings") \o Locked("node_settings")
        \o Opt(Locked("block_state"))

\* submit_block: node_settings for the connection data.
LocksOfSubmitBlock == Locked("node_settings")

\* An initial check that keeps the block_state guard over the fetch.
LocksOfInitialCheckNoDrop ==
    << Acq("block_state") >> \o Opt(LocksOfUpdateNextBlock) \o << Rel("block_state") >>

\* The initial check of mine_some_nonces: block_state, dropped before the
\* fetch when no block is there.
LocksOfInitialCheck ==
    Locked("block_state") \o Opt(LocksOfUpdateNextBlock)

\* The hashrate report: metrics_timestamp for the check; when due,
\* hashrate_data_points in calculate_moving_average_hashrate and
\* metrics_timestamp again.
LocksOfReport ==
    Locked("metrics_timestamp")
        \o Opt(Locked("hashrate_data_points") \o Locked("metrics_timestamp"))

\* One round of the pool worker: block_state for promotion and snapshot;
\* without work a fetch and again; else the blocking call, block_state for
\* the index when nonces were searched, the spawned fetch and submit on a
\* hit, the report.
LocksOfPoolRound ==
    RetryOr(Locked("block_state"), LocksOfUpdateNextBlock,
            << SpawnTask("blocking"), JoinTask("blocking") >>
                \o Opt(Locked("block_state"))
                \o Opt(<< SpawnTask("spawned") >>)
                \o LocksOfReport)

\* One call of the solo loop: block_state for the log and for the
\* promotion; without a block a fetch and again; else the spawned prefetch,
\* block_state for the index reset, rng, the blocking call, and then either
\* the hit (block_state, submit_block) or the statistics (block_state) and
\* the report.
LocksOfSoloRound ==
    RetryOr(Locked("block_state") \o Locked("block_state"), LocksOfUpdateNextBlock,
            Opt(<< SpawnTask("spawned") >>)
                \o Opt(Locked("block_state"))
                \o Locked("rng")
                \o << SpawnTask("blocking"), JoinTask("blocking") >>
                \o << Br({1, 2 + Len(Opt(LocksOfSubmitBlock)) + 2}) >>
                \o Locked("block_state") \o Opt(LocksOfSubmitBlock)
                \o << Br({1 + 2 + Len(LocksOfReport)}) >>
                \o Locked("block_state") \o LocksOfReport)

\* The closure given to spawn_blocking: miner for the whole call; in pool
\* mode rng inside it, once for every batch.
LocksOfBlockingWorker(pool) ==
    IF pool
    THEN << Acq("miner") >> \o Locked("rng") \o << Br({-2, 1}), Rel("miner") >>
    ELSE Locked("miner")

\* The sequence of steps of each task.
TaskProgram(t, pool) ==
    CASE t = "poller" ->
           Loop(LocksOfUpdateNextBlock \o Locked("node_settings"))
      [] t = "miner_loop" ->
           IF pool
           THEN Locked("node_settings") \o LocksOfInitialCheck
                    \o << SpawnTask("prefetcher") >> \o Loop(LocksOfPoolRound)
           ELSE Loop(Locked("node_settings") \o LocksOfInitialCheck
                         \o LocksOfSoloRound)
      [] t = "prefetcher" ->
           Loop(Locked("block_state") \o Opt(LocksOfUpdateNextBlock))
      [] t = "blocking" -> LocksOfBlockingWorker(pool)
      [] t = "spawned" ->
           << Br({1, Len(LocksOfUpdateNextBlock) + 1}) >>
               \o LocksOfUpdateNextBlock
               \o << Br({Len(LocksOfSubmitBlock) + 1}) >>
               \o LocksOfSubmitBlock

\* The step a running task is at.
StepOf(t) == TaskProgram(t, pool_mining)[task_pc[t]]

Running(t) == task_pc[t] > 0

\* The position `offset` steps on; past the end the task has finished.
Advanced(t, offset) ==
    IF task_pc[t] + offset > Len(TaskProgram(t, pool_mining)) THEN 0
    ELSE task_pc[t] + offset

tk_rest == << fn_vars, up_vars, lk_vars, u_vars, g_vars, srv_vars >>

\* Server::run has spawned its two tasks; no lock is held.
TaskInit ==
    /\ SrvInit
    /\ FnIdle
    /\ UpIdle
    /\ LkIdle
    /\ UIdle
    /\ GIdle
    /\ lock_holder = [l \in ServerLocks |-> "free"]
    /\ task_pc = [t \in ServerTasks |->
                    IF t \in {"poller", "miner_loop"} THEN 1 ELSE 0]

\* lock(): the task gets the mutex when nobody holds it, and waits else.
TaskAcquire(t) ==
    /\ Running(t)
    /\ StepOf(t).op = "acq"
    /\ lock_holder[StepOf(t).lock] = "free"
    /\ lock_holder' = [lock_holder EXCEPT ![StepOf(t).lock] = t]
    /\ task_pc' = [task_pc EXCEPT ![t] = Advanced(t, 1)]
    /\ UNCHANGED tk_rest

\* The guard goes out of scope or is dropped.
TaskRelease(t) ==
    /\ Running(t)
    /\ StepOf(t).op = "rel"
    /\ lock_holder' = [lock_holder EXCEPT ![StepOf(t).lock] = "free"]
    /\ task_pc' = [task_pc EXCEPT ![t] = Advanced(t, 1)]
    /\ UNCHANGED tk_rest

\* A condition of the code decides where the task goes on.
TaskBranch(t) ==
    /\ Running(t)
    /\ StepOf(t).op = "br"
    /\ \E offset \in StepOf(t).jump :
         task_pc' = [task_pc EXCEPT ![t] = Advanced(t, offset)]
    /\ UNCHANGED << lock_holder, tk_rest >>

\* tokio::spawn and spawn_blocking: the task starts (one spawned request
\* task is followed at a time).
TaskSpawn(t) ==
    /\ Running(t)
    /\ StepOf(t).op = "spawn"
    /\ LET child == StepOf(t).task
       IN  task_pc' = [task_pc EXCEPT ![t] = Advanced(t, 1),
                                      ![child] = IF task_pc[child] = 0 THEN 1
                                                 ELSE task_pc[child]]
    /\ UNCHANGED << lock_holder, tk_rest >>

\* The await of the JoinHandle: the blocking call has returned.
TaskJoin(t) ==
    /\ Running(t)
    /\ StepOf(t).op = "join"
    /\ task_pc[StepOf(t).task] = 0
    /\ task_pc' = [task_pc EXCEPT ![t] = Advanced(t, 1)]
    /\ UNCHANGED << lock_holder, tk_rest >>

TaskAcquires == \E t \in ServerTasks : TaskAcquire(t)
TaskReleases == \E t \in ServerTasks : TaskRelease(t)
TaskBranches == \E t \in ServerTasks : TaskBranch(t)
TaskSpawns == \E t \in ServerTasks : TaskSpawn(t)
TaskJoins == \E t \in ServerTasks : TaskJoin(t)

TaskNext == TaskAcquires \/ TaskReleases \/ TaskBranches \/ TaskSpawns \/ TaskJoins

SpecTasks == TaskInit /\ [][TaskNext]_vars

\* ------------------------------------------------------------- liveness
\* The server from its start to the moment its first batch is on the GPU,
\* with the fetch tasks going on for ever: every step of Next but the
\* return of a batch and what follows it.
LiveNext ==
    \/ NodeAdvance
    \/ PeriodicSend \/ PeriodicRecv
    \/ PrefetchCheck \/ PrefetchRecv
    \/ SpawnedRecv
    \/ MinerStart \/ InlineRecv
    \/ PoolSpawn \/ PoolGetWork
    \/ SoloGetWork

\* The tasks under a fair scheduler: the periodic fetcher, the prefetcher,
\* the spawned fetches and the mining loop each take their next step when
\* it stays possible (every HTTP request is answered or fails).
TaskFairness ==
    /\ WF_vars(PeriodicSend) /\ WF_vars(PeriodicRecv)
    /\ WF_vars(PrefetchCheck) /\ WF_vars(PrefetchRecv)
    /\ WF_vars(SpawnedRecv)
    /\ WF_vars(MinerStart) /\ WF_vars(InlineRecv)
    /\ WF_vars(PoolSpawn) /\ WF_vars(PoolGetWork)
    /\ WF_vars(SoloGetWork)

SpecLive == Init /\ [][LiveNext]_vars /\ TaskFairness

\* The node answers a fetch with a valid template, which is installed.
ValidAnswer ==
    /\ PeriodicRecv \/ PrefetchRecv \/ SpawnedRecv \/ InlineRecv
    /\ installs' = installs + 1

\* A batch is on the GPU.
BatchDispatched == m_pc = "gpu" \/ w_pc = "gpu"

\* C30: under fair scheduling a failed fetch never stops fetching: the
\* periodic fetcher keeps sending requests for ever, and the prefetcher of
\* the pool worker fetches whenever it finds next_block empty; and when the
\* node answers with valid templates (a valid answer comes whenever fetches
\* keep being sent), next_block eventually becomes non-empty and the mining
\* loop eventually dispatches a GPU batch.
C30_FetchingNeverStops ==
    /\ []<><<PeriodicSend>>_vars
    /\ (ev_failed /\ per_req = None) ~> IsSome(per_req)
    /\ (pre_pc = "check" /\ next_block = None) ~> (pre_pc = "wait" \/ IsSome(next_block))
    /\ SF_vars(ValidAnswer) => (<>IsSome(next_block) /\ <>BatchDispatched)

\* After a failed fetch the periodic fetcher is fetching again, a block is
\* waiting in next_block and a batch is on the GPU.
C30_Witness ==
    /\ ev_failed
    /\ IsSome(per_req)
    /\ IsSome(next_block)
    /\ BatchDispatched

\* C31: in genesis mode the header reported on success (its timestamp, its
\* nBits and the found nonce) is byte for byte the header whose hash
\* find_nonce verified; the timestamp is refreshed only between batches,
\* never while a batch is out.
C31_ReportedHeaderIsVerified ==
    /\ [](g_pc = "done" =>
            /\ g_header = g_report.verified
            /\ g_report.timestamp = GetTimestampFromHeader(g_report.verified)
            /\ g_report.nonce = FromLE8(SubSeq(g_report.verified, 45, 52)))
    /\ [][g_pc = "gpu" => SubSeq(g_header', 1, 44) = SubSeq(g_header, 1, 44)]_vars
    /\ [](g_pc = "gpu" => SameOutside(g_work.header, g_header, 44, 52))

\* A genesis block was found by a batch during which the 30 s ran out: the
\* refresh was due and the reported header still has the verified time.
C31_Witness ==
    /\ g_pc = "done"
    /\ g_elapsed
    /\ g_report.nonce.lo # 0
    /\ g_report.nonce.hi # 0

\* C32: after a call of calculate_moving_average_hashrate at time now every
\* retained sample has a time within the last 60 s of now, the last sample
\* is the one just added, (now, metrics_nonces - previous total), and
\* last_total_nonces is the metrics_nonces value that was read.
C32_SamplesWithinWindow ==
    Called("hashrate") =>
        /\ \A i \in 1 .. Len(u_out.points) :
              /\ u_out.points[i].time <= u_in.now
              /\ u_in.now - u_out.points[i].time <= RetainSpan
        /\ Len(u_out.points) > 0
        /\ u_out.points[Len(u_out.points)]
              = [time |-> u_in.now, nonces |-> u_in.metrics - u_in.last_total]
        /\ u_out.last_total = u_in.metrics

\* A call found a sample older than 60 s and one from after `now`, dropped
\* both and kept the one it added.
C32_Witness ==
    /\ Called("hashrate")
    /\ Len(u_in.points) = 2
    /\ u_in.points[1].time = u_in.now - 601
    /\ u_in.points[2].time > u_in.now
    /\ Len(u_out.points) = 1
    /\ u_out.points[1].nonces = 45

\* The call left three samples spread over one second that total 3 * 10^9
\* nonces: the raw rate is 3 * 10^9 per second.
ThreeSamplesOverOneSecond ==
    /\ Called("hashrate")
    /\ Len(u_out.points) = 3
    /\ u_out.points[1].time = u_in.now - 10
    /\ \A i \in 1 .. 3 : u_out.points[i].time >= u_in.now - 10
    /\ u_out.points[1].nonces + u_out.points[2].nonces + u_out.points[3].nonces = 30

\* C33 (as stated): for any three samples spread over 1 s that total
\* 3 * 10^9 nonces the reported hashrate is at most 3 GH/s and strictly less
\* than the raw rate.
C33_WarmUpBelowRaw ==
    ThreeSamplesOverOneSecond =>
        /\ ~RateLess(RateCap, u_out.reported)
        /\ RateLess(u_out.reported, u_out.raw)

\* C33 (amended): for three samples spread over 1 s that total 3 * 10^9
\* nonces the reported hashrate is capped * 14/15 + raw * 1/15 with capped
\* the smaller of the single-interval estimate and 3 * 10^9; it is at most
\* 3 GH/s and at most the raw rate, and strictly less than the raw rate
\* exactly when the single-interval estimate is below 3 * 10^9.
C33_WarmUpBlend ==
    ThreeSamplesOverOneSecond =>
        /\ RateEq(u_out.raw, RateCap)
        /\ RateEq(u_out.single,
                  [num |-> u_out.points[2].nonces,
                   den |-> IF u_in.now - u_out.points[2].time > 1
                           THEN u_in.now - u_out.points[2].time ELSE 1])
        /\ RateEq(u_out.capped,
                  IF RateLess(u_out.single, RateCap) THEN u_out.single ELSE RateCap)
        /\ RateEq(u_out.reported,
                  [num |-> 14 * u_out.capped.num + 3 * u_out.capped.den,
                   den |-> 15 * u_out.capped.den])
        /\ ~RateLess(RateCap, u_out.reported)
        /\ ~RateLess(u_out.raw, u_out.reported)
        /\ RateLess(u_out.reported, u_out.raw) <=> RateLess(u_out.single, RateCap)

\* Three even samples of 10^9 nonces half a second apart: the estimate of
\* the last interval is 2 * 10^9 and the reported rate is below the raw one.
C33_Witness ==
    /\ ThreeSamplesOverOneSecond
    /\ \A i \in 1 .. 3 : u_out.points[i].nonces = 10
    /\ u_out.points[2].time = u_in.now - 5
    /\ RateLess(u_out.reported, u_out.raw)

\* The blocks on their way to the node: those of the spawned submissions
\* and the one the solo loop is submitting.
SubmittedBlocks ==
    BagToSet(sub_req) \cup (IF m_pc = "subwait" /\ IsSome(l_block) THEN {Unwrap(l_block)} ELSE {})

\* Block b has the body of template t and a header that differs from the
\* header of t in the nonce bytes [44..52) at most.
FromOneTemplate(b, t) ==
    /\ b.body = TemplateBody(t)
    /\ b.header.prev = TemplateHeader(t).prev
    /\ b.header.rest = TemplateHeader(t).rest

\* C34: every block the server submits pairs a header and a body of the
\* same fetched template: its header differs from the header of the
\* template that supplied its body only in bytes [44..52), whatever the
\* interleaving of fetches and promotions with the batch, in pool and in
\* solo mode.
C34_HeaderAndBodyOfOneTemplate ==
    \A b \in SubmittedBlocks : \E t \in Templates : FromOneTemplate(b, t)

\* A block on the second chain tip is being submitted after the blocks of
\* both tips were fetched, while a newer block is waiting in next_block.
C34_Witness ==
    /\ installs >= 2
    /\ IsSome(next_block)
    /\ \E b \in SubmittedBlocks : b.header.prev = 2 /\ b.header.nonce # ZeroBytes(8)

\* C35: blocks are installed into next_block in the order the node
\* produced them: with overlapping fetches, a block of an earlier node
\* response (an earlier chain tip) never replaces a block of a later one in
\* next_block.
C35_InstallsInNodeOrder ==
    [][(InstallStep /\ IsSome(next_block)) =>
          PrevHash(Unwrap(next_block')) >= PrevHash(Unwrap(next_block))]_vars

\* The mining loop hands a work to the blocking GPU call.
DispatchStep ==
    \/ m_pc # "gpu" /\ m_pc' = "gpu"
    \/ w_pc # "gpu" /\ w_pc' = "gpu"

\* C36: a batch is dispatched only when BlockState held a current_block as
\* the work was snapshotted, and the header given to find_nonce is that
\* block's header outside the nonce bytes [44..52); after a solo hit has
\* emptied current_block no batch runs before a new block is promoted.
C36_BatchOnlyOnCurrentBlock ==
    /\ [][DispatchStep =>
            /\ IsSome(current_block')
            /\ l_work'.header.prev = Unwrap(current_block').header.prev
            /\ l_work'.header.rest = Unwrap(current_block').header.rest
            /\ l_work'.target = Unwrap(current_block').target]_vars
    /\ []((m_pc = "gpu" \/ w_pc = "gpu") => IsSome(current_block))

\* A solo hit has emptied current_block and the loop, back at step 1 with
\* blocks installed before, fetches instead of mining the old work.
C36_Witness ==
    /\ ~pool_mining
    /\ installs >= 1
    /\ current_block = None
    /\ current_work.header.prev # 0
    /\ m_pc = "iwait"
    /\ m_ret = "getwork"

\* The task is at a lock() whose mutex somebody holds.
WaitsForLock(t) ==
    /\ Running(t)
    /\ StepOf(t).op = "acq"
    /\ lock_holder[StepOf(t).lock] # "free"

\* Every task of the set waits for a lock held by a task of the set.
DeadlockedSet(T) ==
    /\ T # {}
    /\ \A t \in T : WaitsForLock(t) /\ lock_holder[StepOf(t).lock] \in T

\* C37: no reachable state has a set of tasks each waiting for a lock held
\* by another task of the set; the nested miner-then-rng acquisition of the
\* blocking worker closes no cycle with the async tasks.
C37_NoLockCycle ==
    \A T \in SUBSET ServerTasks : ~DeadlockedSet(T)

\* The blocking worker holds miner and rng at once while an async task
\* waits for block_state, held by another.
C37_Witness ==
    /\ lock_holder["miner"] = "blocking"
    /\ lock_holder["rng"] = "blocking"
    /\ \E t \in ServerTasks :
         /\ WaitsForLock(t)
         /\ StepOf(t).lock = "block_state"

\* C38: has_nonces_left agrees with the overflow check of find_nonce: for
\* every kernel size, inner_iter_size and nonce index it is true exactly
\* when nonce_idx times num_nonces_per_search fits in 32 bits, so a work
\* that passes the guard is never skipped by find_nonce for base overflow.
C38_GuardAgreesWithFindNonce ==
    Called("find_nonce") =>
        /\ HasNoncesLeft(u_in, u_in) <=>
               FitsU32(u_in.nonce_idx, u_in.kernel_exp + u_in.inner_exp)
        /\ HasNoncesLeft(u_in, u_in) => u_out.outcome # "skip"

\* C39: metrics_nonces counts exactly the nonces the GPU searched: after
\* any sequence of mining-loop steps, with no statistics update pending, it
\* equals the hashes_processed total; skipped and failed batches add
\* nothing and a batch that found a share is counted.
C39_MetricsEqualHashesProcessed ==
    (\A t \in {"mine", "work"} :
         lk_pc[t] \in {"start", "top", "off", "gpu", "nap"}) =>
        metrics_nonces = hashes_processed

\* The 32 bytes, least significant first, of mantissa * 256^(exponent - 3)
\* (the mantissa shifted right for an exponent below 3).
CompactTarget(exponent, mantissa) ==
    LET v == IF exponent >= 3 THEN mantissa
             ELSE mantissa \div Pow(256, 3 - exponent)
        low == IF exponent >= 3 THEN exponent - 3 ELSE 0
    IN  [i \in 1 .. 32 |->
           IF i - 1 - low \in 0 .. 2 THEN (v \div Pow(256, i - 1 - low)) % 256 ELSE 0]

\* C40: for every bits value whose target fits in 32 bytes, the array of
\* bits_to_target read with byte 31 most significant is
\* mantissa * 256^(exponent - 3); so it is not above the compact target,
\* and neither is a hash the verifier accepts against it.
C40_TargetEncodesBits ==
    (Called("bits_to_target") /\ u_in.exponent <= 32) =>
        /\ u_out.t1 = CompactTarget(u_in.exponent, u_in.m1)
        /\ TargetLeq(u_out.t1, CompactTarget(u_in.exponent, u_in.m1))

====
